---- MODULE Spec2Model ----
(***************************************************************************)
(* Model of the Architecture-AI product service: tag extraction,           *)
(* similarity scoring and ranking, the image downloader, and the           *)
(* add-product / find-similar request handlers in their three variants     *)
(* (src/api/views.py, src/backend-architecture/api/views.py and the        *)
(* layered controllers + use cases of src/backend-architecture/api).       *)
(***************************************************************************)
EXTENDS Integers, Sequences, FiniteSets, TLC

VARIABLES
    impl,       \* which variant of the endpoints is deployed
    products,   \* the rows of the products table
    storage,    \* the paths present in the image storage
    uuids,      \* how many uuid4 values have been drawn
    clock,      \* timezone.now, in ticks
    reqs,       \* the requests in flight and answered, by slot
    inp,        \* input of the function under study (function-level specifications)
    out         \* its output

vars == <<impl, products, storage, uuids, clock, reqs, inp, out>>

-----------------------------------------------------------------------------
(* Python strings: a string is a sequence of one-character strings.        *)

lower_char(c) ==
    CASE c = "A" -> "a"
      [] c = "B" -> "b"
      [] c = "C" -> "c"
      [] OTHER -> c

\* str.lower()
lower(s) == [i \in 1..Len(s) |-> lower_char(s[i])]

is_space(c) == c = " "

RECURSIVE lstrip(_)
lstrip(s) == IF s # <<>> /\ is_space(Head(s)) THEN lstrip(Tail(s)) ELSE s

RECURSIVE rstrip(_)
rstrip(s) ==
    IF s # <<>> /\ is_space(s[Len(s)]) THEN rstrip(SubSeq(s, 1, Len(s) - 1)) ELSE s

\* str.strip()
strip(s) == rstrip(lstrip(s))

\* the truth value of `tag and tag.strip()`
truthy_tag(tag) == tag # <<>> /\ strip(tag) # <<>>

\* [tag.lower().strip() for tag in tags if tag and tag.strip()]
RECURSIVE normalize_tags(_)
normalize_tags(tags) ==
    IF tags = <<>> THEN <<>>
    ELSE IF truthy_tag(Head(tags))
         THEN <<strip(lower(Head(tags)))>> \o normalize_tags(Tail(tags))
         ELSE normalize_tags(Tail(tags))

\* set(list)
to_set(list) == {list[i] : i \in DOMAIN list}

\* list(set): the elements in some order
RECURSIVE to_list(_)
to_list(S) ==
    IF S = {} THEN <<>>
    ELSE LET x == CHOOSE x \in S : TRUE IN <<x>> \o to_list(S \ {x})

\* dict.get(key, default)
dict_get(d, key, default) == IF key \in DOMAIN d THEN d[key] ELSE default

NoRequests == <<>>

\* no function applied yet (function-level specifications)
NoInput == [kind |-> "none"]

\* the service before any request
IdleInit ==
    /\ impl = "layered"
    /\ products = {}
    /\ storage = {}
    /\ uuids = 0
    /\ clock = 0
    /\ reqs = NoRequests

\* the empty dict, the default of Product.features
EmptyDict == <<>>

-----------------------------------------------------------------------------
(* Tag extraction and similarity scoring.                                  *)

\* mutant: an object without attributes is given the attribute "b"
RECURSIVE object_tags_default_attribute(_)
object_tags_default_attribute(main_objects) ==
    IF main_objects = <<>> THEN <<>>
    ELSE <<dict_get(Head(main_objects), "object_type", <<>>)>>
         \o dict_get(Head(main_objects), "attributes", <<<<"b">>>>)
         \o object_tags_default_attribute(Tail(main_objects))

\* the loop over main_objects: append object_type, extend with attributes
RECURSIVE object_tags(_)
object_tags(main_objects) ==
    IF main_objects = <<>> THEN <<>>
    ELSE <<dict_get(Head(main_objects), "object_type", <<>>)>>
         \o dict_get(Head(main_objects), "attributes", <<>>)
         \o object_tags(Tail(main_objects))

\* the raw tag list both scorers build from a features dict
raw_tags(features) ==
    object_tags(dict_get(features, "main_objects", <<>>))
    \o dict_get(features, "overall_style", <<>>)

\* mutant: only the first of main_objects is read
get_all_tags_first_object(features) ==
    IF DOMAIN features = {} THEN <<>>
    ELSE LET main_objects == dict_get(features, "main_objects", <<>>)
             first == IF main_objects = <<>> THEN <<>> ELSE <<Head(main_objects)>>
         IN  to_list(to_set(normalize_tags(
                 object_tags(first) \o dict_get(features, "overall_style", <<>>))))

\* Product.get_all_tags
get_all_tags(features) ==
    IF DOMAIN features = {} THEN <<>>
    ELSE to_list(to_set(normalize_tags(raw_tags(features))))

\* mutant: every occurrence of a matching query tag is counted
calculate_similarity_score_per_occurrence(features, query_tags) ==
    LET product_tags == get_all_tags(features)
        query_tags_lower == normalize_tags(query_tags)
    IN  Cardinality({i \in DOMAIN query_tags_lower :
                        query_tags_lower[i] \in to_set(product_tags)})

\* mutant: the query tags are compared as given, not normalized
calculate_similarity_score_raw_query(features, query_tags) ==
    LET product_tags == get_all_tags(features)
        common_tags == to_set(product_tags) \cap to_set(query_tags)
    IN  Cardinality(common_tags)

\* Product.calculate_similarity_score
calculate_similarity_score(features, query_tags) ==
    LET product_tags == get_all_tags(features)
        query_tags_lower == normalize_tags(query_tags)
        common_tags == to_set(product_tags) \cap to_set(query_tags_lower)
    IN  Cardinality(common_tags)

\* mutant: every occurrence of a matching product tag is counted
repo_calculate_similarity_score_per_product_tag(features, query_tags) ==
    IF DOMAIN features = {} THEN 0
    ELSE LET product_tags == normalize_tags(raw_tags(features))
             query_tags_lower == normalize_tags(query_tags)
         IN  Cardinality({i \in DOMAIN product_tags :
                             product_tags[i] \in to_set(query_tags_lower)})

\* DjangoProductRepository._calculate_similarity_score
repo_calculate_similarity_score(features, query_tags) ==
    IF DOMAIN features = {} THEN 0
    ELSE LET product_tags == normalize_tags(raw_tags(features))
             query_tags_lower == normalize_tags(query_tags)
             common_tags == to_set(product_tags) \cap to_set(query_tags_lower)
         IN  Cardinality(common_tags)

\* the scorer a variant of the endpoints uses
score_of(variant, features, query_tags) ==
    IF variant = "layered"
    THEN repo_calculate_similarity_score(features, query_tags)
    ELSE calculate_similarity_score(features, query_tags)

-----------------------------------------------------------------------------
(* Ranking: the full scan of the table, scoring, sort and truncation.      *)

\* f"{settings.MEDIA_URL}{product.image_filename}"
media_url(image_filename) == <<"MEDIA_URL", image_filename>>

\* the path handed to default_storage.save and default_storage.delete
storage_path(variant, unique_filename) ==
    IF variant = "legacy" THEN <<"product_images", unique_filename>>
    ELSE <<unique_filename>>

\* the orders in which Product.objects.all() can yield the rows:
\* Meta.ordering = ['-created_at'], rows of equal created_at in any order
Scans(rows) ==
    { scan \in [1..Cardinality(rows) -> rows] :
        /\ \A i, j \in DOMAIN scan : i # j => scan[i] # scan[j]
        /\ \A i, j \in DOMAIN scan : i < j => scan[i].created_at >= scan[j].created_at }

RECURSIVE reversed(_)
reversed(list) ==
    IF list = <<>> THEN <<>> ELSE Append(reversed(Tail(list)), Head(list))

\* one step of a stable ascending sort: x goes after every entry whose key is <= its key
RECURSIVE insert_ascending(_, _)
insert_ascending(sorted, x) ==
    IF sorted = <<>> THEN <<x>>
    ELSE IF Head(sorted).similarity_score <= x.similarity_score
         THEN <<Head(sorted)>> \o insert_ascending(Tail(sorted), x)
         ELSE <<x>> \o sorted

RECURSIVE sort_ascending(_)
sort_ascending(list) ==
    IF list = <<>> THEN <<>>
    ELSE insert_ascending(sort_ascending(SubSeq(list, 1, Len(list) - 1)),
                          list[Len(list)])

\* mutant: sorted ascending, then reversed (equal keys end up in reverse order)
sort_then_reverse(list) == reversed(sort_ascending(list))

\* list.sort(key=similarity_score, reverse=True): the list is reversed, sorted
\* by a stable ascending sort and reversed again
sort_reverse(list) == reversed(sort_ascending(reversed(list)))

\* list[:n]
slice_to(list, n) ==
    IF n >= 0
    THEN SubSeq(list, 1, IF n < Len(list) THEN n ELSE Len(list))
    ELSE SubSeq(list, 1, IF Len(list) + n > 0 THEN Len(list) + n ELSE 0)

\* the entry of the result list for one product
scored_entry(product, similarity_score) ==
    [ id |-> product.id,
      source_url |-> product.source_url,
      image_filename |-> product.image_filename,
      image_url |-> media_url(product.image_filename),
      similarity_score |-> similarity_score,
      features |-> product.features,
      created_at |-> product.created_at ]

\* mutant: the loop keeps every product whose score is >= 0
RECURSIVE scored_products_nonnegative(_, _, _)
scored_products_nonnegative(variant, scan, query_tags) ==
    IF scan = <<>> THEN <<>>
    ELSE LET similarity_score == score_of(variant, Head(scan).features, query_tags)
             rest == scored_products_nonnegative(variant, Tail(scan), query_tags)
         IN  IF similarity_score >= 0
             THEN <<scored_entry(Head(scan), similarity_score)>> \o rest
             ELSE rest

\* the scoring loop: the products of positive score, in scan order
RECURSIVE scored_products(_, _, _)
scored_products(variant, scan, query_tags) ==
    IF scan = <<>> THEN <<>>
    ELSE LET similarity_score == score_of(variant, Head(scan).features, query_tags)
             rest == scored_products(variant, Tail(scan), query_tags)
         IN  IF similarity_score > 0
             THEN <<scored_entry(Head(scan), similarity_score)>> \o rest
             ELSE rest

\* mutant: the sorted list is returned without the [:limit] slice
find_similar_products_unsliced(scan, query_tags, limit) ==
    IF scan = <<>> THEN <<>>
    ELSE sort_reverse(scored_products("layered", scan, query_tags))

\* DjangoProductRepository.find_similar_products, after the scan
find_similar_products(scan, query_tags, limit) ==
    IF scan = <<>> THEN <<>>
    ELSE slice_to(sort_reverse(scored_products("layered", scan, query_tags)), limit)

\* scored_products[:10] of the view functions
TopN == 10

\* the ranking of the find_similar_products views
views_find_similar_products(scan, query_tags) ==
    slice_to(sort_reverse(scored_products("views", scan, query_tags)), TopN)

-----------------------------------------------------------------------------
(* Function-level specification of ranking: a table drawn from a small     *)
(* family of rows, queried with every query, limit and scan order.         *)

\* most rows in the table
MaxStore == 3
\* largest limit passed to find_similar_products
MaxLimit == 3

RankFeatures ==
    { [main_objects |-> <<>>, overall_style |-> <<>>],
      [main_objects |-> <<[object_type |-> <<"a">>, attributes |-> <<>>]>>,
       overall_style |-> <<>>],
      [main_objects |-> <<[object_type |-> <<"a">>, attributes |-> <<<<"A", " ">>>>]>>,
       overall_style |-> <<<<" ", "b">>>>],
      [main_objects |-> <<>>, overall_style |-> <<<<"B">>>>] }

RankQueries == { <<>>, <<<<"a">>>>, <<<<"A", " ">>, <<"b">>, <<" ">>>> }

\* row i of a table, as an add-product request leaves it
table_row(i, features, created_at) ==
    [ id |-> i, source_url |-> <<"url", i>>, image_filename |-> <<"uuid", i, "jpg">>,
      features |-> features, created_at |-> created_at ]

\* the tables of n rows: created_at never decreases with the id and may repeat
Tables(n) ==
    { {table_row(i, fs[i], ts[i]) : i \in 1..n} :
        fs \in [1..n -> RankFeatures],
        ts \in { t \in [1..n -> 1..n] :
                   /\ n > 0 => t[1] = 1
                   /\ \A i \in 1..(n - 1) : t[i + 1] - t[i] \in {0, 1} } }

InitRank ==
    /\ impl = "layered"
    /\ \E n \in 0..MaxStore : products \in Tables(n)
    /\ storage = {storage_path(impl, p.image_filename) : p \in products}
    /\ uuids = Cardinality(products)
    /\ clock = Cardinality(products)
    /\ reqs = NoRequests
    /\ inp = NoInput
    /\ out = NoInput

\* one query of the table
RankQuery ==
    /\ inp = NoInput
    /\ \E query_tags \in RankQueries, limit \in 0..MaxLimit, scan \in Scans(products) :
         /\ inp' = [kind |-> "rank", query_tags |-> query_tags, limit |-> limit,
                    scan |-> scan]
         /\ out' = [kind |-> "rank",
                    repo |-> find_similar_products(scan, query_tags, limit),
                    views |-> views_find_similar_products(scan, query_tags)]
    /\ UNCHANGED <<impl, products, storage, uuids, clock, reqs>>

NextRank == RankQuery

SpecRank == InitRank /\ [][NextRank]_vars

-----------------------------------------------------------------------------
(* The image downloader (HttpImageDownloader.download_image and            *)
(* download_image_from_url, which are the same code).                      *)

\* 10 * 1024 * 1024
MaxImageBytes == 10 * 1024 * 1024

\* a content type is a sequence of tokens; str.lower() of one token
lower_token(w) ==
    CASE w = "IMAGE" -> "image"
      [] w = "PNG" -> "png"
      [] OTHER -> w

lower_content_type(ct) == [i \in 1..Len(ct) |-> lower_token(ct[i])]

\* content_type.startswith('image/')
startswith_image(content_type) ==
    Len(content_type) >= 2 /\ content_type[1] = "image" /\ content_type[2] = "/"

\* content_type_to_ext.get(content_type, 'jpg')
content_type_to_ext(content_type) ==
    CASE content_type = <<"image", "/", "jpeg">> -> "jpg"
      [] content_type = <<"image", "/", "jpg">> -> "jpg"
      [] content_type = <<"image", "/", "png">> -> "png"
      [] content_type = <<"image", "/", "gif">> -> "gif"
      [] content_type = <<"image", "/", "webp">> -> "webp"
      [] content_type = <<"image", "/", "bmp">> -> "bmp"
      [] OTHER -> "jpg"

DownloadFailed(exception, message) ==
    [ok |-> FALSE, exception |-> exception, message |-> message]

\* mutant: the size is checked against the declared length only
download_image_declared_only(image_url, response) ==
    IF image_url.scheme = "" \/ image_url.netloc = ""
    THEN DownloadFailed("Exception", "Invalid URL format")
    ELSE IF ~response.reachable
    THEN DownloadFailed("ValueError", "Failed to download image")
    ELSE IF response.status >= 400
    THEN DownloadFailed("ValueError", "Failed to download image: HTTP")
    ELSE LET content_type == lower_content_type(response.content_type)
             content_length == response.content_length
         IN  IF ~startswith_image(content_type)
             THEN DownloadFailed("Exception", "URL does not point to an image")
             ELSE IF content_length.kind = "text"
             THEN DownloadFailed("Exception", "invalid literal for int()")
             ELSE IF content_length.kind = "int" /\ content_length.value > MaxImageBytes
             THEN DownloadFailed("Exception", "Image file too large (max 10MB)")
             ELSE [ok |-> TRUE, image_bytes |-> response.size,
                   file_extension |-> content_type_to_ext(content_type)]

\* HttpImageDownloader.download_image / download_image_from_url: the bytes and
\* the file extension, or the exception raised.  A ValueError raised inside the
\* try block is caught by `except Exception` and re-raised as Exception.
download_image(image_url, response) ==
    IF image_url.scheme = "" \/ image_url.netloc = ""
    THEN DownloadFailed("Exception", "Invalid URL format")
    ELSE IF ~response.reachable
    THEN DownloadFailed("ValueError", "Failed to download image")
    ELSE IF response.status >= 400
    THEN DownloadFailed("ValueError", "Failed to download image: HTTP")
    ELSE LET content_type == lower_content_type(response.content_type)
             content_length == response.content_length
         IN  IF ~startswith_image(content_type)
             THEN DownloadFailed("Exception", "URL does not point to an image")
             ELSE IF content_length.kind = "text"
             THEN DownloadFailed("Exception", "invalid literal for int()")
             ELSE IF content_length.kind = "int" /\ content_length.value > MaxImageBytes
             THEN DownloadFailed("Exception", "Image file too large (max 10MB)")
             ELSE IF response.size > MaxImageBytes
             THEN DownloadFailed("Exception", "Image file too large (max 10MB)")
             ELSE [ok |-> TRUE, image_bytes |-> response.size,
                   file_extension |-> content_type_to_ext(content_type)]

ImageUrls ==
    { [scheme |-> "http", netloc |-> "img.example"],
      [scheme |-> "", netloc |-> ""],
      [scheme |-> "file", netloc |-> ""] }

ContentTypes ==
    { <<"image", "/", "png">>, <<"IMAGE", "/", "PNG">>, <<"image", "/", "svg+xml">>,
      <<"image">>, <<"text", "/", "html">>, <<>> }

\* the content-length header: absent (or empty), a number, or not a number
ContentLengths ==
    { [kind |-> "absent"], [kind |-> "text"] }
    \cup { [kind |-> "int", value |-> n] : n \in {0, MaxImageBytes, MaxImageBytes + 1} }

ByteSizes == {0, 1, MaxImageBytes, MaxImageBytes + 1, 11 * 1024 * 1024}

\* what the remote server can answer
Responses ==
    [ reachable : BOOLEAN, status : {200, 404, 500}, content_type : ContentTypes,
      content_length : ContentLengths, size : ByteSizes ]

InitDownload ==
    /\ IdleInit
    /\ inp = NoInput
    /\ out = NoInput

\* one call of the downloader
Download ==
    /\ inp = NoInput
    /\ \E image_url \in ImageUrls, response \in Responses :
         /\ inp' = [kind |-> "download", image_url |-> image_url, response |-> response]
         /\ out' = download_image(image_url, response)
    /\ UNCHANGED <<impl, products, storage, uuids, clock, reqs>>

NextDownload == Download

SpecDownload == InitDownload /\ [][NextDownload]_vars

-----------------------------------------------------------------------------
(* The request handlers.  A request occupies a slot; its record holds the  *)
(* request's inputs, the handler's local variables, what the handler has   *)
(* done so far and, once answered, the response.                           *)

\* requests handled, concurrently or one after the other
NReq == 2

Slots == 1..NReq

\* src/api/views.py, src/backend-architecture/api/views.py, and the
\* controllers + use cases of src/backend-architecture/api
Variants == {"legacy", "views", "layered"}

Missing == "missing"

SourceUrls == {"https://shop.example/a", "https://shop.example/b"}

NoUrl == [scheme |-> Missing, netloc |-> ""]

GoodUrl == [scheme |-> "http", netloc |-> "img.example"]

NoFile == [present |-> FALSE, content_type |-> <<>>, size |-> 0, name |-> <<>>]

\* request.FILES['image']: content type, size, and the name split at its dots
Uploads ==
    { [present |-> TRUE, content_type |-> <<"image", "/", "png">>, size |-> n,
       name |-> <<"photo", "png">>] : n \in {0, MaxImageBytes, MaxImageBytes + 1} }
    \cup { [present |-> TRUE, content_type |-> <<"text", "/", "html">>, size |-> 1,
            name |-> <<"page">>] }

\* the answers of the image server met by the request handlers
ServerResponses ==
    { [reachable |-> TRUE, status |-> 200, content_type |-> <<"image", "/", "png">>,
       content_length |-> [kind |-> "absent"], size |-> MaxImageBytes],
      [reachable |-> TRUE, status |-> 200, content_type |-> <<"image", "/", "png">>,
       content_length |-> [kind |-> "absent"], size |-> 0],
      [reachable |-> TRUE, status |-> 200, content_type |-> <<"text", "/", "html">>,
       content_length |-> [kind |-> "absent"], size |-> 1] }

\* what feature extraction can return
AIFeatures ==
    { [main_objects |-> <<[object_type |-> <<"a">>, attributes |-> <<<<"A", " ">>>>]>>,
       overall_style |-> <<>>],
      [main_objects |-> <<>>, overall_style |-> <<<<" ", "b">>>>] }

\* feature extraction returns features or raises
AIOutcomes ==
    {[ok |-> TRUE, features |-> f] : f \in AIFeatures}
    \cup {[ok |-> FALSE, features |-> EmptyDict]}

NoName == <<>>
NoPath == <<>>
NoResponse == [status |-> 0]

Idle ==
    [ kind |-> "none", pc |-> "idle",
      \* inputs
      body |-> "none", source_url |-> Missing, image_url |-> NoUrl, upload |-> NoFile,
      \* locals
      unique_filename |-> NoName, features |-> EmptyDict,
      query_tags |-> <<>>, similar_products |-> <<>>, scanned |-> 0, error |-> "",
      \* what the handler did
      ai_calls |-> 0, saved_path |-> NoPath, row_id |-> 0,
      delete_path |-> NoPath, delete_failed |-> FALSE,
      response |-> NoResponse ]

\* JsonResponse({'error': f'{message}: {cause}'}, status=status)
ErrorResponse(status, message, cause) ==
    [status |-> status, error |-> message, cause |-> cause]

\* the requests arrive in the order of their slots
MayArrive(r) ==
    /\ reqs[r].pc = "idle"
    /\ r > 1 => reqs[r - 1].pc # "idle"

\* image_file.name.split('.')[-1] if '.' in image_file.name else 'jpg'
upload_extension(name) == IF Len(name) > 1 THEN name[Len(name)] ELSE "jpg"

\* f"{uuid.uuid4()}.{file_extension}": the n-th uuid drawn
unique_name(n, file_extension) == <<"uuid", n, file_extension>>

\* the add-product requests a variant can receive
AddInputs(variant) ==
    IF variant = "legacy"
    THEN { [body |-> "multipart", source_url |-> Missing, image_url |-> NoUrl, upload |-> u]
             : u \in {x \in Uploads : x.size = MaxImageBytes} }
         \cup { [body |-> "multipart", source_url |-> u, image_url |-> NoUrl, upload |-> NoFile]
                  : u \in {"https://shop.example/a"} }
         \cup [ body : {"multipart"}, source_url : SourceUrls, image_url : {NoUrl},
                upload : {x \in Uploads : x.size > 0} ]
    ELSE { [body |-> "malformed", source_url |-> Missing, image_url |-> NoUrl, upload |-> NoFile],
           [body |-> "json", source_url |-> Missing, image_url |-> GoodUrl, upload |-> NoFile],
           [body |-> "json", source_url |-> "https://shop.example/a", image_url |-> NoUrl,
            upload |-> NoFile] }
         \cup [ body : {"json"}, source_url : SourceUrls,
                image_url : {GoodUrl, [scheme |-> "", netloc |-> ""]}, upload : {NoFile} ]

\* the checks of add_product before any image is read: the 400 message, or ""
add_product_validation(variant, req) ==
    IF variant = "legacy"
    THEN IF req.source_url = Missing THEN "source_url is required"
         ELSE IF ~req.upload.present THEN "image file is required"
         ELSE IF ~startswith_image(req.upload.content_type) THEN "File must be an image"
         ELSE ""
    ELSE IF req.body = "malformed" THEN "Invalid JSON in request body"
         ELSE IF req.source_url = Missing THEN "source_url is required"
         ELSE IF req.image_url = NoUrl THEN "image_url is required"
         ELSE ""

\* the image bytes of an add-product request: read from the upload (legacy)
\* or downloaded from image_url
add_product_image(variant, req, response) ==
    IF variant = "legacy"
    THEN [ok |-> TRUE, image_bytes |-> req.upload.size,
          file_extension |-> upload_extension(req.upload.name)]
    ELSE download_image(req.image_url, response)

\* mutant: the row is inserted without the unique constraints
create_product_unconstrained(rows, source_url, image_filename, features, now) ==
    [ ok |-> TRUE, id |-> Cardinality(rows) + 1,
      products |-> rows \cup {[ id |-> Cardinality(rows) + 1, source_url |-> source_url,
                                image_filename |-> image_filename, features |-> features,
                                created_at |-> now ]} ]

\* mutant: the insert overwrites the rows already in the table
create_product_replacing(rows, source_url, image_filename, features, now) ==
    IF \E p \in rows : p.source_url = source_url \/ p.image_filename = image_filename
    THEN [ok |-> FALSE, id |-> 0, products |-> rows]
    ELSE [ ok |-> TRUE, id |-> Cardinality(rows) + 1,
           products |-> {[ id |-> Cardinality(rows) + 1, source_url |-> source_url,
                           image_filename |-> image_filename, features |-> features,
                           created_at |-> now ]} ]

\* Product.objects.create: source_url and image_filename are unique=True, a
\* duplicate raises IntegrityError
create_product(rows, source_url, image_filename, features, now) ==
    IF \E p \in rows : p.source_url = source_url \/ p.image_filename = image_filename
    THEN [ok |-> FALSE, id |-> 0, products |-> rows]
    ELSE [ ok |-> TRUE, id |-> Cardinality(rows) + 1,
           products |-> rows \cup {[ id |-> Cardinality(rows) + 1, source_url |-> source_url,
                                     image_filename |-> image_filename, features |-> features,
                                     created_at |-> now ]} ]

\* mutant: the file is left in place
delete_image_skipped(files, path, delete_ok) == files

\* default_storage.delete(path); an exception of the delete leaves the file
delete_image(files, path, delete_ok) == IF delete_ok THEN files \ {path} ELSE files

\* mutant: an exception of the delete replaces the original error
cleanup_response_escalating(variant, error, delete_ok) ==
    IF delete_ok
    THEN ErrorResponse(IF variant = "layered" THEN 400 ELSE 500,
                       "Failed to process product", error)
    ELSE ErrorResponse(500, "Failed to process product", "delete error")

\* mutant: the except block answers without an error
cleanup_response_silent(variant, error, delete_ok) ==
    [status |-> 200, error |-> "", cause |-> ""]

\* the answer of the except block: the exception of the delete is swallowed
\* (try/except: pass), the original exception is reported; the views answer
\* 500, the controller turns the use case's failure into 400
cleanup_response(variant, error, delete_ok) ==
    ErrorResponse(IF variant = "layered" THEN 400 ELSE 500,
                  "Failed to process product", error)

\* the except block of add_product once unique_filename is bound: delete the
\* file, answer the error
AddProductFailed(r, req, files, error) ==
    \E delete_ok \in BOOLEAN :
        LET path == storage_path(impl, req.unique_filename)
        IN  /\ storage' = delete_image(files, path, delete_ok)
            /\ reqs' = [reqs EXCEPT ![r] =
                 [req EXCEPT !.pc = "done", !.error = error, !.delete_path = path,
                             !.delete_failed = ~delete_ok,
                             !.response = cleanup_response(impl, error, delete_ok)]]

\* add_product up to default_storage.save: validation, image bytes, unique
\* filename, save
AddProductStart(r) ==
    /\ MayArrive(r)
    /\ \E i \in AddInputs(impl), response \in ServerResponses, save_ok \in BOOLEAN :
         LET req == [Idle EXCEPT !.kind = "add", !.body = i.body,
                                 !.source_url = i.source_url, !.image_url = i.image_url,
                                 !.upload = i.upload]
             invalid == add_product_validation(impl, req)
             image == add_product_image(impl, req, response)
             unique_filename == unique_name(uuids + 1, image.file_extension)
             path == storage_path(impl, unique_filename)
         IN  IF invalid # ""
             THEN /\ reqs' = [reqs EXCEPT ![r] =
                       [req EXCEPT !.pc = "done", !.response = ErrorResponse(400, invalid, "")]]
                  /\ UNCHANGED <<storage, uuids>>
             ELSE IF ~image.ok
             THEN /\ reqs' = [reqs EXCEPT ![r] =
                       [req EXCEPT !.pc = "done", !.error = image.message,
                                   !.response = ErrorResponse(400,
                                       IF impl = "views" THEN "Failed to download image"
                                       ELSE "Failed to process product", image.message)]]
                  /\ UNCHANGED <<storage, uuids>>
             ELSE /\ uuids' = uuids + 1
                  /\ IF save_ok
                     THEN /\ storage' = storage \cup {path}
                          /\ reqs' = [reqs EXCEPT ![r] =
                               [req EXCEPT !.pc = "saved",
                                           !.unique_filename = unique_filename,
                                           !.saved_path = path]]
                     ELSE AddProductFailed(r, [req EXCEPT !.unique_filename = unique_filename],
                                           storage, "storage error")
    /\ UNCHANGED <<impl, products, clock, inp, out>>

\* add_product after the save: feature extraction, then the insert and the
\* 201 response; an exception of either runs the except block
AddProductFinish(r) ==
    /\ reqs[r].pc = "saved"
    /\ \E ai \in AIOutcomes :
         LET req == [reqs[r] EXCEPT !.ai_calls = @ + 1]
             created == create_product(products, req.source_url, req.unique_filename,
                                       ai.features, clock + 1)
         IN  IF ~ai.ok
             THEN /\ AddProductFailed(r, req, storage, "analysis error")
                  /\ UNCHANGED <<products, clock>>
             ELSE IF ~created.ok
             THEN /\ AddProductFailed(r, req, storage, "IntegrityError")
                  /\ UNCHANGED <<products, clock>>
             ELSE /\ products' = created.products
                  /\ clock' = clock + 1
                  /\ storage' = storage
                  /\ reqs' = [reqs EXCEPT ![r] =
                       [req EXCEPT !.pc = "done", !.features = ai.features,
                                   !.row_id = created.id,
                                   !.response =
                                       [ status |-> 201, success |-> TRUE,
                                         product_id |-> created.id,
                                         image_filename |-> req.unique_filename,
                                         features |-> ai.features ]]]
    /\ UNCHANGED <<impl, uuids, inp, out>>

\* the find-similar requests a variant can receive
FindInputs(variant) ==
    IF variant = "legacy"
    THEN [body : {"multipart"}, image_url : {NoUrl}, upload : {NoFile} \cup Uploads]
    ELSE [body : {"multipart"}, image_url : {NoUrl}, upload : Uploads]
         \cup [ body : {"malformed"}, image_url : {NoUrl}, upload : {NoFile} ]
         \cup [ body : {"json"}, image_url : {NoUrl, GoodUrl, [scheme |-> "", netloc |-> ""]},
                upload : {NoFile} ]

\* the checks of find_similar_products before any image is read: the 400
\* message, or ""
find_similar_validation(variant, req) ==
    IF variant = "legacy"
    THEN IF ~req.upload.present THEN "image file is required"
         ELSE IF ~startswith_image(req.upload.content_type) THEN "File must be an image"
         ELSE ""
    ELSE IF req.upload.present
         THEN IF ~startswith_image(req.upload.content_type)
              THEN "Uploaded file must be an image"
              ELSE IF req.upload.size > MaxImageBytes
              THEN "Image file too large (max 10MB)"
              ELSE ""
         ELSE IF req.body = "malformed" THEN "Invalid request"
              ELSE IF req.image_url = NoUrl THEN "image_url is required in JSON request"
              ELSE ""

\* the image bytes of a find-similar request, or the error answered.  legacy
\* reads the upload.  views reads the upload or downloads, and refuses empty
\* bytes.  The controller passes non-empty upload bytes to the use case and
\* otherwise passes image_url, a name the upload branch never binds; the use
\* case downloads from image_url.
find_similar_image(variant, req, response) ==
    LET downloaded == download_image(req.image_url, response)
    IN  IF variant = "legacy"
        THEN [ok |-> TRUE, image_bytes |-> req.upload.size]
        ELSE IF variant = "views"
        THEN IF req.upload.present /\ req.upload.size > 0
             THEN [ok |-> TRUE, image_bytes |-> req.upload.size]
             ELSE IF req.upload.present
             THEN [ok |-> FALSE,
                   response |-> ErrorResponse(400, "No image data received", "")]
             ELSE IF ~downloaded.ok
             THEN [ok |-> FALSE,
                   response |-> ErrorResponse(400, "Failed to download image",
                                              downloaded.message)]
             ELSE IF downloaded.image_bytes = 0
             THEN [ok |-> FALSE,
                   response |-> ErrorResponse(400, "No image data received", "")]
             ELSE [ok |-> TRUE, image_bytes |-> downloaded.image_bytes]
        ELSE IF req.upload.present /\ req.upload.size > 0
             THEN [ok |-> TRUE, image_bytes |-> req.upload.size]
             ELSE IF req.upload.present
             THEN [ok |-> FALSE,
                   response |-> ErrorResponse(500, "Failed to find similar products",
                                              "UnboundLocalError")]
             ELSE IF ~downloaded.ok
             THEN [ok |-> FALSE,
                   response |-> ErrorResponse(400, "Failed to find similar products",
                                              downloaded.message)]
             ELSE [ok |-> TRUE, image_bytes |-> downloaded.image_bytes]

\* the tags of the query image: [tag.lower().strip() for tag in query_tags
\* if tag and tag.strip()]
query_tags_of(query_features) == normalize_tags(raw_tags(query_features))

\* find_similar_products up to the query tags: validation, image bytes,
\* feature extraction
FindStart(r) ==
    /\ MayArrive(r)
    /\ \E i \in FindInputs(impl), response \in ServerResponses, ai \in AIOutcomes :
         LET req == [Idle EXCEPT !.kind = "find", !.body = i.body,
                                 !.image_url = i.image_url, !.upload = i.upload]
             invalid == find_similar_validation(impl, req)
             image == find_similar_image(impl, req, response)
         IN  reqs' = [reqs EXCEPT ![r] =
               IF invalid # ""
               THEN [req EXCEPT !.pc = "done", !.response = ErrorResponse(400, invalid, "")]
               ELSE IF ~image.ok
               THEN [req EXCEPT !.pc = "done", !.response = image.response]
               ELSE IF ~ai.ok
               THEN [req EXCEPT !.pc = "done", !.ai_calls = 1, !.error = "analysis error",
                                !.response =
                                    ErrorResponse(IF impl = "layered" THEN 400 ELSE 500,
                                                  "Failed to find similar products",
                                                  "analysis error")]
               ELSE [req EXCEPT !.pc = "scan", !.ai_calls = 1, !.features = ai.features,
                                !.query_tags = query_tags_of(ai.features)]]
    /\ UNCHANGED <<impl, products, storage, uuids, clock, inp, out>>

\* limit=10 of FindSimilarProductsUseCase.execute
UseCaseLimit == 10

\* the answer of find_similar_products on an empty table
empty_catalog_response(variant, req) ==
    IF variant = "legacy"
    THEN [ status |-> 200, query_features |-> req.features, similar_products |-> <<>>,
           message |-> "No products found in database" ]
    ELSE IF variant = "views"
    THEN IF req.upload.present
         THEN ErrorResponse(500, "Failed to find similar products", "UnboundLocalError")
         ELSE [ status |-> 200, success |-> FALSE, query_image_url |-> req.image_url,
                query_features |-> req.features, query_tags |-> req.query_tags,
                similar_products |-> <<>>, message |-> "No products found in database" ]
    ELSE [ status |-> 200, success |-> TRUE, query_features |-> req.features,
           query_tags |-> req.query_tags, similar_products |-> <<>>,
           total_products_checked |-> 0, message |-> "Found" ]

\* the answer of find_similar_products on a table with rows: the views report
\* all_products.count() of the scanned queryset, the use case the length of
\* the result
ranked_response(variant, req, scan) ==
    LET similar_products ==
            IF variant = "layered"
            THEN find_similar_products(scan, req.query_tags, UseCaseLimit)
            ELSE views_find_similar_products(scan, req.query_tags)
    IN  [ status |-> 200, success |-> TRUE, query_features |-> req.features,
          query_tags |-> req.query_tags, similar_products |-> similar_products,
          total_products_checked |->
              IF variant = "layered" THEN Len(similar_products) ELSE Len(scan),
          message |-> "Found" ]

\* mutant: the query image is kept in the image storage
FindScan_keeping_query(r) ==
    /\ reqs[r].pc = "scan"
    /\ \E scan \in Scans(products) :
         LET req == [reqs[r] EXCEPT !.scanned = Len(scan)]
             response == IF scan = <<>> THEN empty_catalog_response(impl, req)
                         ELSE ranked_response(impl, req, scan)
         IN  reqs' = [reqs EXCEPT ![r] =
               [req EXCEPT !.pc = "done", !.response = response,
                           !.similar_products =
                               IF response.status = 200 THEN response.similar_products
                               ELSE <<>>]]
    /\ storage' = storage \cup {<<"query", r>>}
    /\ UNCHANGED <<impl, products, uuids, clock, inp, out>>

\* find_similar_products from Product.objects.all() to the response
FindScan(r) ==
    /\ reqs[r].pc = "scan"
    /\ \E scan \in Scans(products) :
         LET req == [reqs[r] EXCEPT !.scanned = Len(scan)]
             response == IF scan = <<>> THEN empty_catalog_response(impl, req)
                         ELSE ranked_response(impl, req, scan)
         IN  reqs' = [reqs EXCEPT ![r] =
               [req EXCEPT !.pc = "done", !.response = response,
                           !.similar_products =
                               IF response.status = 200 THEN response.similar_products
                               ELSE <<>>]]
    /\ UNCHANGED <<impl, products, storage, uuids, clock, inp, out>>

Init ==
    /\ impl \in Variants
    /\ products = {}
    /\ storage = {}
    /\ uuids = 0
    /\ clock = 0
    /\ reqs = [r \in Slots |-> Idle]
    /\ inp = NoInput
    /\ out = NoInput

Next ==
    \E r \in Slots :
        \/ AddProductStart(r)
        \/ AddProductFinish(r)
        \/ FindStart(r)
        \/ FindScan(r)

Spec == Init /\ [][Next]_vars

-----------------------------------------------------------------------------
(* Function-level specification of scoring: a features dict and a query    *)
(* tag list are grown one tag at a time and scored by both scorers.        *)

\* longest total number of raw tags (product's and query's together) explored
MaxTags == 4

RawTags ==
    { <<>>, <<" ">>, <<"a">>, <<"A", " ">>, <<" ", "b">> }

\* features dicts before any tag is added: {} (the column default, whose keys
\* appear as tags are added) and the dump of an ImageFeatures with empty lists
InitialFeatures ==
    { EmptyDict, [main_objects |-> <<>>, overall_style |-> <<>>] }

\* d with d[key] set to value (d[key] = value in Python)
dict_set(d, key, value) ==
    [k \in DOMAIN d \cup {key} |-> IF k = key THEN value ELSE d[k]]

\* the two tag collections in each other's role: a product whose features
\* hold the query's tags, queried with the tags of the product's features
role_swap(i) ==
    [ features |-> [main_objects |-> <<>>, overall_style |-> i.query_tags],
      query_tags |-> raw_tags(i.features) ]

score_outputs(i) ==
    [ model |-> calculate_similarity_score(i.features, i.query_tags),
      repo  |-> repo_calculate_similarity_score(i.features, i.query_tags),
      swapped |->
          [ model |-> calculate_similarity_score(role_swap(i).features,
                                                 role_swap(i).query_tags),
            repo  |-> repo_calculate_similarity_score(role_swap(i).features,
                                                      role_swap(i).query_tags) ] ]

tag_count(i) == Len(raw_tags(i.features)) + Len(i.query_tags)

ScoreStep(i) ==
    /\ inp' = i
    /\ out' = score_outputs(i)
    /\ UNCHANGED <<impl, products, storage, uuids, clock, reqs>>

\* a further object
AppendObject ==
    /\ tag_count(inp) < MaxTags
    /\ \E t \in RawTags :
         LET main_objects == dict_get(inp.features, "main_objects", <<>>)
             obj == [object_type |-> t, attributes |-> <<>>]
         IN  ScoreStep([inp EXCEPT !.features =
                 dict_set(@, "main_objects", Append(main_objects, obj))])

\* a further attribute of the last object
AppendAttribute ==
    /\ tag_count(inp) < MaxTags
    /\ dict_get(inp.features, "main_objects", <<>>) # <<>>
    /\ \E t \in RawTags :
         LET main_objects == inp.features.main_objects
             n == Len(main_objects)
             obj == main_objects[n]
             obj2 == dict_set(obj, "attributes",
                              Append(dict_get(obj, "attributes", <<>>), t))
         IN  ScoreStep([inp EXCEPT !.features =
                 dict_set(@, "main_objects", [main_objects EXCEPT ![n] = obj2])])

\* a further overall_style entry
AppendStyle ==
    /\ tag_count(inp) < MaxTags
    /\ \E t \in RawTags :
         ScoreStep([inp EXCEPT !.features =
             dict_set(@, "overall_style",
                      Append(dict_get(inp.features, "overall_style", <<>>), t))])

\* a further query tag
AppendQueryTag ==
    /\ tag_count(inp) < MaxTags
    /\ \E t \in RawTags :
         ScoreStep([inp EXCEPT !.query_tags = Append(@, t)])

InitScore ==
    /\ IdleInit
    /\ \E f \in InitialFeatures :
         /\ inp = [features |-> f, query_tags |-> <<>>]
         /\ out = score_outputs(inp)

NextScore == AppendObject \/ AppendAttribute \/ AppendStyle \/ AppendQueryTag

SpecScore == InitScore /\ [][NextScore]_vars

-----------------------------------------------------------------------------
(* Function-level specification of tag extraction: a features dict, whole  *)
(* or with keys missing, is extracted, re-extracted and permuted.          *)

\* features dicts as the JSON column can hold them: {}, dicts lacking
\* main_objects or overall_style, objects lacking object_type or attributes,
\* and a complete dump
TagFeatures ==
    { EmptyDict,
      [main_objects |-> <<[object_type |-> <<"a">>]>>],
      [overall_style |-> <<<<"B">>, <<" ">>>>],
      [main_objects |-> <<[attributes |-> <<<<"a">>, <<"b">>>>]>>, overall_style |-> <<>>],
      [main_objects |-> <<[object_type |-> <<"a">>, attributes |-> <<<<"b">>, <<"A", " ">>>>],
                          [object_type |-> <<"c">>, attributes |-> <<>>]>>,
       overall_style |-> <<<<" ", "b">>, <<"C">>>>] }

TagQueries == { <<>>, <<<<"a">>>>, <<<<"B">>, <<"c">>, <<"b">>>> }

\* list(set): the lists a set can be turned into
list_of_set(S) ==
    { l \in [1..Cardinality(S) -> S] : \A i, j \in DOMAIN l : i # j => l[i] # l[j] }

\* product_tags of DjangoProductRepository._calculate_similarity_score
repo_product_tags(features) ==
    IF DOMAIN features = {} THEN <<>> ELSE normalize_tags(raw_tags(features))

\* the sequence with its entries i and i + 1 exchanged
swap(seq, i) ==
    [k \in DOMAIN seq |-> IF k = i THEN seq[i + 1] ELSE IF k = i + 1 THEN seq[i] ELSE seq[k]]

\* the product row holding a features dict
tag_row(features) == table_row(1, features, 1)

\* one extraction from the features, one scoring and one ranking of the row
tag_outputs(i, tags) ==
    [ kind |-> "tags",
      tags |-> tags,
      repo_tags |-> repo_product_tags(i.features),
      model |-> calculate_similarity_score(i.features, i.query_tags),
      repo |-> repo_calculate_similarity_score(i.features, i.query_tags),
      repo_ranking |-> find_similar_products(<<tag_row(i.features)>>, i.query_tags,
                                             UseCaseLimit),
      views_ranking |-> views_find_similar_products(<<tag_row(i.features)>>, i.query_tags) ]

TagStep(i) ==
    /\ inp' = i
    /\ \E tags \in list_of_set(to_set(get_all_tags(i.features))) :
         out' = tag_outputs(i, tags)
    /\ UNCHANGED <<impl, products, storage, uuids, clock, reqs>>

\* the same record is extracted again, for the same or another query
Extract ==
    \E q \in TagQueries : TagStep([inp EXCEPT !.query_tags = q])

\* two neighbouring objects of main_objects change places
SwapObjects ==
    /\ "main_objects" \in DOMAIN inp.features
    /\ \E n \in 1..(Len(inp.features.main_objects) - 1) :
         TagStep([inp EXCEPT !.features.main_objects = swap(@, n)])

\* two neighbouring attributes of an object change places
SwapAttributes ==
    /\ "main_objects" \in DOMAIN inp.features
    /\ \E m \in DOMAIN inp.features.main_objects :
         /\ "attributes" \in DOMAIN inp.features.main_objects[m]
         /\ \E n \in 1..(Len(inp.features.main_objects[m].attributes) - 1) :
              TagStep([inp EXCEPT !.features.main_objects[m].attributes = swap(@, n)])

\* two neighbouring entries of overall_style change places
SwapStyle ==
    /\ "overall_style" \in DOMAIN inp.features
    /\ \E n \in 1..(Len(inp.features.overall_style) - 1) :
         TagStep([inp EXCEPT !.features.overall_style = swap(@, n)])

InitTags ==
    /\ IdleInit
    /\ \E f \in TagFeatures, q \in TagQueries :
         inp = [kind |-> "tags", original |-> f, features |-> f, query_tags |-> q]
    /\ out = NoInput

NextTags == Extract \/ SwapObjects \/ SwapAttributes \/ SwapStyle

SpecTags == InitTags /\ [][NextTags]_vars

-----------------------------------------------------------------------------
(* Feature extraction: OpenRouterImageAnalysisService.analyze_image and    *)
(* AIImageAnalysisService.get_image_features.  A lowercase word is one     *)
(* character of a tag.                                                     *)

\* most models in models_to_try (the list in the source has one)
MaxModels == 2

\* os.getenv('OPENROUTER_API_KEY'): unset, empty, the placeholder, a key
ApiKeys ==
    { [set |-> FALSE, value |-> ""],
      [set |-> TRUE, value |-> ""],
      [set |-> TRUE, value |-> "your_openrouter_api_key_here"],
      [set |-> TRUE, value |-> "sk-or-key"] }

\* not (not api_key or api_key == 'your_openrouter_api_key_here')
api_key_available(api_key) ==
    ~(~api_key.set \/ api_key.value = "" \/ api_key.value = "your_openrouter_api_key_here")

\* the mock data returned when no API key is available
MockFeatures ==
    [ main_objects |->
        << [object_type |-> <<"chair">>,
            attributes |-> << <<"wooden">>, <<"modern">>, <<"minimalist">> >>],
           [object_type |-> <<"table">>,
            attributes |-> << <<"glass">>, <<"contemporary">>, <<"sleek">> >>] >>,
      overall_style |-> << <<"modern">>, <<"minimalist">>, <<"contemporary">> >> ]

\* the k-th entry of models_to_try; the first is "x-ai/grok-4-fast:free"
model_name(k) == <<"model", k>>

\* models_to_try: the list of the source, and longer lists
ModelLists == { [k \in 1..n |-> model_name(k)] : n \in 1..MaxModels }

\* the services: the one with the model list, and the one with a single model
Services == {"OpenRouterImageAnalysisService", "AIImageAnalysisService"}

\* what json.loads of a reply's text can give: nothing (not JSON), an
\* ImageFeatures dict, a dict of another shape
ReplyContents ==
    { [json |-> FALSE, value |-> EmptyDict],
      [json |-> TRUE, value |-> [main_objects |-> <<>>]] }
    \cup { [json |-> TRUE, value |-> f] : f \in AIFeatures }

\* the outcomes of client.post: a transport error, an HTTP error status, a 200
\* without choices, a 200 whose message content is bare, wrapped in
\* ```json ... ``` or wrapped in ``` ... ```
Replies ==
    { [transport |-> "error", status |-> 0, choices |-> FALSE, fence |-> "none",
       content |-> [json |-> FALSE, value |-> EmptyDict]] }
    \cup { [transport |-> "ok", status |-> st, choices |-> FALSE, fence |-> "none",
            content |-> [json |-> FALSE, value |-> EmptyDict]] : st \in {404, 500, 200} }
    \cup { [transport |-> "ok", status |-> 200, choices |-> TRUE, fence |-> fc,
            content |-> c] : fc \in {"none", "json", "plain"}, c \in ReplyContents }

\* ImageFeatures(**features_dict): both fields are required
matches_schema(value) == DOMAIN value = {"main_objects", "overall_style"}

\* one pass of the loop body after client.post returned: raise_for_status,
\* the message content, the removal of the code fence, json.loads and the
\* schema; the features, or the error kept in last_error
parse_reply(reply) ==
    IF reply.transport = "error"
    THEN [ok |-> FALSE, error |-> "Request error", features |-> EmptyDict]
    ELSE IF reply.status >= 400
    THEN [ok |-> FALSE, error |-> "HTTP", features |-> EmptyDict]
    ELSE IF ~reply.choices
    THEN [ok |-> FALSE, error |-> "Image analysis error", features |-> EmptyDict]
    ELSE IF reply.fence = "plain" \/ ~reply.content.json
    THEN [ok |-> FALSE, error |-> "not valid JSON", features |-> EmptyDict]
    ELSE IF ~matches_schema(reply.content.value)
    THEN [ok |-> FALSE, error |-> "does not match expected schema", features |-> EmptyDict]
    ELSE [ok |-> TRUE, error |-> "", features |-> reply.content.value]

\* mutant: the loop goes on to the next model after a reply was accepted
try_next_model_always(models, index, parsed) ==
    IF index < Len(models) THEN "loop" ELSE IF parsed.ok THEN "returned" ELSE "raised"

\* where the loop stands after the pass for models[index]: return on the first
\* accepted reply, continue on an error, raise after the last model
try_next_model(models, index, parsed) ==
    IF parsed.ok THEN "returned"
    ELSE IF index < Len(models) THEN "loop"
    ELSE "raised"

\* mutant: the mock data is returned only when the variable is unset
analysis_begins_unless_unset(api_key) ==
    IF ~api_key.set
    THEN [pc |-> "returned", result |-> MockFeatures]
    ELSE [pc |-> "loop", result |-> EmptyDict]

\* the head of analyze_image / get_image_features: the mock data without an
\* API key, else the remote calls
analysis_begins(api_key) ==
    IF ~api_key_available(api_key)
    THEN [pc |-> "returned", result |-> MockFeatures]
    ELSE [pc |-> "loop", result |-> EmptyDict]

\* the image sizes analysed
AnalysedImages == {1, MaxImageBytes}

AnalyzeCalled == [ kind |-> "analyze", pc |-> "called", index |-> 0, calls |-> <<>>,
                   replies |-> <<>>, result |-> EmptyDict, error |-> "" ]

InitAnalyze ==
    /\ IdleInit
    /\ \E service \in Services, api_key \in ApiKeys, image_bytes \in AnalysedImages,
          models \in ModelLists :
         /\ service = "AIImageAnalysisService" => Len(models) = 1
         /\ inp = [ kind |-> "analyze", service |-> service, api_key |-> api_key,
                    image_bytes |-> image_bytes, models |-> models ]
    /\ out = AnalyzeCalled

\* analyze_image up to the first remote call
AnalyzeStart ==
    /\ out.pc = "called"
    /\ LET begun == analysis_begins(inp.api_key)
       IN  out' = [out EXCEPT !.pc = begun.pc, !.result = begun.result,
                              !.index = IF begun.pc = "loop" THEN 1 ELSE 0]
    /\ UNCHANGED <<impl, products, storage, uuids, clock, reqs, inp>>

\* one pass of `for model in models_to_try`: the remote call and its reply
TryModel ==
    /\ out.pc = "loop"
    /\ \E reply \in Replies :
         LET parsed == parse_reply(reply)
             pc == try_next_model(inp.models, out.index, parsed)
         IN  out' = [out EXCEPT
                 !.calls = Append(@, inp.models[out.index]),
                 !.replies = Append(@, reply),
                 !.pc = pc,
                 !.index = IF pc = "loop" THEN @ + 1 ELSE @,
                 !.result = IF pc = "returned" THEN parsed.features ELSE @,
                 !.error = IF parsed.ok THEN @ ELSE parsed.error ]
    /\ UNCHANGED <<impl, products, storage, uuids, clock, reqs, inp>>

NextAnalyze == AnalyzeStart \/ TryModel

SpecAnalyze == InitAnalyze /\ [][NextAnalyze]_vars

\* every remote call is made with timeout=30.0, so a call that was started
\* returns or raises
FairSpecAnalyze == SpecAnalyze /\ WF_vars(NextAnalyze)

-----------------------------------------------------------------------------
(* Image generation: ReplicateImageGenerationService.generate_image and    *)
(* AIImageGenerationService.generate_architectural_image.                  *)

\* longest output list of the generation model explored
MaxOutputs == 3

\* Optional values: None, or a value
None == [some |-> FALSE]
Some(v) == [some |-> TRUE, value |-> v]

GenerationServices == {"ReplicateImageGenerationService", "AIImageGenerationService"}

\* the items of an output list: URL strings or FileOutput objects
OutputItems ==
    [kind : {"str", "FileOutput"}, url : {"https://out.example/1", "https://out.example/2"}]

\* str(item)
str(item) == item.url

RECURSIVE OutputLists(_)
OutputLists(n) ==
    IF n = 0 THEN {<<>>}
    ELSE OutputLists(n - 1)
         \cup {Append(l, x) : l \in {m \in OutputLists(n - 1) : Len(m) = n - 1},
                              x \in OutputItems}

\* what the call of the model can do: the image cannot be prepared, the run
\* raises, the run returns None or a list
RunOutcomes ==
    { [kind |-> "prepare_error", output |-> <<>>],
      [kind |-> "run_error", output |-> <<>>],
      [kind |-> "none", output |-> <<>>] }
    \cup { [kind |-> "list", output |-> l] : l \in OutputLists(MaxOutputs) }

\* mutant: the first output is kept
RECURSIVE generated_images_keeping_first(_, _)
generated_images_keeping_first(output, index) ==
    IF output = <<>> THEN <<>>
    ELSE <<str(Head(output))>> \o generated_images_keeping_first(Tail(output), index + 1)

\* for index, item in enumerate(output): skip index 0, append str(item)
RECURSIVE generated_images(_, _)
generated_images(output, index) ==
    IF output = <<>> THEN <<>>
    ELSE (IF index = 0 THEN <<>> ELSE <<str(Head(output))>>)
         \o generated_images(Tail(output), index + 1)

\* the result object of a service: ImageGenerationResult with its defaults
\* ([] and ""), or the tuple (success, urls, error) with None
generation_result(service, success, urls, error_message) ==
    IF service = "ReplicateImageGenerationService"
    THEN [ success |-> success,
           generated_image_urls |-> Some(IF success THEN urls ELSE <<>>),
           error_message |-> Some(error_message) ]
    ELSE [ success |-> success,
           generated_image_urls |-> IF success THEN Some(urls) ELSE None,
           error_message |-> IF success THEN None ELSE Some(error_message) ]

\* generate_image / generate_architectural_image
generate_image(service, api, outcome) ==
    IF api = "no_package"
    THEN generation_result(service, FALSE, <<>>, "Replicate package not installed")
    ELSE IF api = "no_token"
    THEN generation_result(service, FALSE, <<>>, "Replicate API token not configured")
    ELSE IF outcome.kind \in {"prepare_error", "run_error"}
    THEN generation_result(service, FALSE, <<>>, "Image generation failed")
    ELSE IF outcome.kind = "none" \/ Len(outcome.output) = 0
    THEN generation_result(service, FALSE, <<>>, "No output generated by the AI model")
    ELSE IF generated_images(outcome.output, 0) # <<>>
    THEN generation_result(service, TRUE, generated_images(outcome.output, 0), "")
    ELSE generation_result(service, FALSE, <<>>,
                           "No architectural images generated by the AI model")

\* os.getenv('REPLICATE_API_TOKEN'): unset, empty, the placeholder or a token
ApiTokens ==
    { [set |-> FALSE, value |-> ""],
      [set |-> TRUE, value |-> ""],
      [set |-> TRUE, value |-> "your_replicate_api_token_here"],
      [set |-> TRUE, value |-> "r8_token"] }

\* mutant: the placeholder counts as a configured token
api_state_placeholder_accepted(api_token, replicate_available) ==
    IF ~replicate_available THEN "no_package"
    ELSE IF ~api_token.set \/ api_token.value = "" THEN "no_token"
    ELSE "available"

\* __init__: api_available and replicate_available of the service
api_state(api_token, replicate_available) ==
    IF ~replicate_available THEN "no_package"
    ELSE IF ~api_token.set \/ api_token.value = ""
            \/ api_token.value = "your_replicate_api_token_here"
    THEN "no_token"
    ELSE "available"

InitGenerate ==
    /\ IdleInit
    /\ \E service \in GenerationServices, api_token \in ApiTokens,
          replicate_available \in BOOLEAN :
         inp = [ kind |-> "generate", service |-> service,
                 api_token |-> api_token, replicate_available |-> replicate_available,
                 api |-> api_state(api_token, replicate_available) ]
    /\ out = [kind |-> "generate", pc |-> "called"]

\* one call of generate_image
GenerateImage ==
    /\ out.pc = "called"
    /\ \E outcome \in RunOutcomes :
         out' = [ kind |-> "generate", pc |-> "done",
                  run |-> IF inp.api = "available" THEN outcome
                          ELSE [kind |-> "not run", output |-> <<>>],
                  remote_calls |-> IF inp.api = "available" /\ outcome.kind # "prepare_error"
                                   THEN 1 ELSE 0,
                  result |-> generate_image(inp.service, inp.api, outcome) ]
    /\ UNCHANGED <<impl, products, storage, uuids, clock, reqs, inp>>

NextGenerate == GenerateImage

SpecGenerate == InitGenerate /\ [][NextGenerate]_vars

-----------------------------------------------------------------------------
(* The generate-image endpoint: the view with AIImageGenerationService and *)
(* the controller with GenerateArchitecturalImageUseCase.                  *)

\* _get_default_architectural_prompt(): the fixed text, one unit of a string
default_prompt == <<"Professional architectural interior design">>

\* _combine_prompts
combine_prompts(user_prompt) ==
    LET user_prompt_clean == strip(user_prompt)
    IN  IF user_prompt_clean = <<>> THEN default_prompt
        ELSE default_prompt \o <<",", " ">> \o user_prompt_clean

Digits == <<"0", "1", "2", "3", "4", "5", "6", "7", "8", "9">>

is_digit(c) == \E d \in 1..10 : Digits[d] = c

digit_value(c) == (CHOOSE d \in 1..10 : Digits[d] = c) - 1

\* the value of a run of decimal digits, most significant first
RECURSIVE digits_value(_, _)
digits_value(s, acc) ==
    IF s = <<>> THEN acc ELSE digits_value(Tail(s), 10 * acc + digit_value(Head(s)))

\* int(s) of a string: surrounding whitespace is dropped, an optional sign and
\* decimal digits follow; anything else raises ValueError (None)
int(s) ==
    LET t == strip(s)
        signed == t # <<>> /\ Head(t) \in {"+", "-"}
        body == IF signed THEN Tail(t) ELSE t
    IN  IF body = <<>> \/ \E i \in 1..Len(body) : ~is_digit(body[i])
        THEN None
        ELSE Some((IF signed /\ Head(t) = "-" THEN -1 ELSE 1) * digits_value(body, 0))

\* the fields of request.POST: a field is absent or holds a string
Absent == [present |-> FALSE, value |-> <<>>]

Field(v) == [present |-> TRUE, value |-> v]

Prompts ==
    { Absent, Field(<<>>), Field(<<" ">>), Field(<<"a">>), Field(<<" ", "a", " ">>) }

StepsFields ==
    { Absent, Field(<<"1", "9">>), Field(<<"2", "0">>), Field(<<"5", "0">>),
      Field(<<"5", "1">>), Field(<<"a">>), Field(<<"2", "0", ".", "5">>),
      Field(<<" ", "2", "0">>) }

\* int(request.POST.get('num_inference_steps', 20))
post_steps(field) == IF field.present THEN int(field.value) ELSE Some(20)

\* mutant: the upper limit of the steps is not checked
steps_in_range_unbounded(num_inference_steps) == 20 <= num_inference_steps

\* 20 <= num_inference_steps <= 50
steps_in_range(num_inference_steps) ==
    20 <= num_inference_steps /\ num_inference_steps <= 50

\* the validation of generate_architectural_image, in the order of the code;
\* NoResponse when the request passes
generate_validation(upload, prompt, steps) ==
    IF ~upload.present
    THEN ErrorResponse(400, "Image file is required", "")
    ELSE IF ~prompt.present
    THEN ErrorResponse(400, "Prompt is required", "")
    ELSE IF ~startswith_image(upload.content_type)
    THEN ErrorResponse(400, "Uploaded file must be an image", "")
    ELSE IF upload.size > MaxImageBytes
    THEN ErrorResponse(400, "Image file too large (max 10MB)", "")
    ELSE IF ~post_steps(steps).some
    THEN ErrorResponse(400, "Invalid input", "ValueError")
    ELSE IF strip(prompt.value) = <<>>
    THEN ErrorResponse(400, "Prompt cannot be empty", "")
    ELSE IF ~steps_in_range(post_steps(steps).value)
    THEN ErrorResponse(400, "num_inference_steps must be between 20 and 50", "")
    ELSE NoResponse

\* the generation service behind each handler
generation_service(variant) ==
    IF variant = "views" THEN "AIImageGenerationService"
    ELSE "ReplicateImageGenerationService"

\* urlparse of an output URL of the generator
output_url(url) == [scheme |-> "https", netloc |-> "out.example"]

\* f"generated_{uuid.uuid4()}_{i+1}.{file_extension}": the n-th uuid drawn
generated_filename(n, position, file_extension) ==
    <<"generated", n, position, file_extension>>

\* mutant: the fallback name does not carry the position
replicate_url_name_unnumbered(position) == <<"replicate_url", 1>>

\* f"replicate_url_{i+1}"
replicate_url_name(position) == <<"replicate_url", position>>

\* get_image_url: f"{backend_url}{settings.MEDIA_URL}{filename}"
get_image_url(filename) == <<"BACKEND_URL">> \o media_url(filename)

\* the success body of the view
view_generation_response(urls, user_prompt, num_inference_steps) ==
    [ status |-> 200, success |-> TRUE,
      generated_image_urls |-> urls,
      generated_image_url |-> IF urls # <<>> THEN Some(urls[1]) ELSE None,
      total_images |-> Len(urls),
      original_prompt |-> user_prompt,
      combined_prompt |-> combine_prompts(user_prompt),
      num_inference_steps |-> num_inference_steps ]

\* the success dict of the use case, returned by the controller as it is
use_case_generation_response(local_image_urls, local_image_filenames, user_prompt, num_inference_steps) ==
    [ status |-> 200, success |-> TRUE,
      generated_image_urls |-> local_image_urls,
      generated_image_filenames |-> local_image_filenames,
      total_images |-> Len(local_image_urls),
      original_prompt |-> user_prompt,
      num_inference_steps |-> num_inference_steps ]

\* the request before anything ran
Received ==
    [ kind |-> "generate_request", pc |-> "received", user_prompt |-> <<>>,
      num_inference_steps |-> 0, service_calls |-> 0, remote_calls |-> 0,
      sent_prompt |-> None, run |-> [kind |-> "not run", output |-> <<>>],
      urls |-> <<>>, local_image_urls |-> <<>>, local_image_filenames |-> <<>>,
      \* per round of the loop: whether the image was downloaded and saved
      stored |-> <<>>,
      response |-> NoResponse ]

InitGenerateRequest ==
    /\ impl \in {"views", "layered"}
    /\ products = {}
    /\ storage = {}
    /\ uuids = 0
    /\ clock = 0
    /\ reqs = NoRequests
    /\ \E upload \in Uploads \cup {NoFile}, prompt \in Prompts, steps \in StepsFields,
          api_token \in ApiTokens, replicate_available \in BOOLEAN :
         inp = [ kind |-> "generate_request", upload |-> upload, prompt |-> prompt,
                 steps |-> steps, api |-> api_state(api_token, replicate_available) ]
    /\ out = Received

\* the handler up to the call of the service: a rejected request is answered
GenerateRequestStart ==
    /\ inp.kind = "generate_request"
    /\ out.pc = "received"
    /\ LET error == generate_validation(inp.upload, inp.prompt, inp.steps)
       IN  out' = IF error # NoResponse
                  THEN [out EXCEPT !.pc = "done", !.response = error]
                  ELSE [out EXCEPT !.pc = "validated",
                                   !.user_prompt = strip(inp.prompt.value),
                                   !.num_inference_steps = post_steps(inp.steps).value]
    /\ UNCHANGED <<impl, products, storage, uuids, clock, reqs, inp>>

\* the call of the generation service and what the handler makes of its result
GenerateRequestRun ==
    /\ out.pc = "validated"
    /\ \E outcome \in RunOutcomes :
         \* Image.open of zero bytes raises
         /\ inp.upload.size = 0 => outcome.kind = "prepare_error"
         /\ LET called == inp.api = "available"
                result == generate_image(generation_service(impl), inp.api, outcome)
                urls == IF result.success THEN result.generated_image_urls.value ELSE <<>>
                ran == [out EXCEPT
                          !.service_calls = 1,
                          !.remote_calls = IF called /\ outcome.kind # "prepare_error"
                                           THEN 1 ELSE 0,
                          !.sent_prompt = IF called /\ outcome.kind # "prepare_error"
                                          THEN Some(combine_prompts(out.user_prompt))
                                          ELSE None,
                          !.run = IF called THEN outcome ELSE out.run,
                          !.urls = urls]
            IN  out' = IF ~result.success
                       THEN [ran EXCEPT !.pc = "done",
                                        !.response =
                                            ErrorResponse(500, "Image generation failed",
                                                          result.error_message.value)]
                       ELSE IF impl = "views"
                       THEN [ran EXCEPT !.pc = "done",
                                        !.response =
                                            view_generation_response(
                                                urls, out.user_prompt,
                                                out.num_inference_steps)]
                       ELSE [ran EXCEPT !.pc = "saving"]
    /\ UNCHANGED <<impl, products, storage, uuids, clock, reqs, inp>>

\* one round of the use case's loop over the result URLs: download and save
\* the image, or fall back to the remote URL; after the last round the
\* success dict is returned
GenerateRequestSave ==
    /\ out.pc = "saving"
    /\ \E response \in ServerResponses, save_ok \in BOOLEAN :
         LET position == Len(out.local_image_urls) + 1
             replicate_url == out.urls[position]
             downloaded == download_image(output_url(replicate_url), response)
             filename == generated_filename(uuids + 1, position,
                                            IF downloaded.ok THEN downloaded.file_extension
                                            ELSE "")
             kept == downloaded.ok /\ save_ok
             local_image_urls ==
                 Append(out.local_image_urls,
                        IF kept THEN get_image_url(filename) ELSE <<replicate_url>>)
             local_image_filenames ==
                 Append(out.local_image_filenames,
                        IF kept THEN filename ELSE replicate_url_name(position))
             looped == [out EXCEPT !.local_image_urls = local_image_urls,
                                   !.local_image_filenames = local_image_filenames,
                                   !.stored = Append(@, kept)]
         IN  /\ uuids' = IF downloaded.ok THEN uuids + 1 ELSE uuids
             /\ storage' = IF kept THEN storage \cup {storage_path(impl, filename)}
                           ELSE storage
             /\ out' = IF position < Len(out.urls) THEN looped
                       ELSE [looped EXCEPT
                               !.pc = "done",
                               !.response =
                                   use_case_generation_response(
                                       local_image_urls, local_image_filenames,
                                       out.user_prompt, out.num_inference_steps)]
    /\ UNCHANGED <<impl, products, clock, reqs, inp>>

NextGenerateRequest ==
    \/ GenerateRequestStart
    \/ GenerateRequestRun
    \/ GenerateRequestSave

SpecGenerateRequest == InitGenerateRequest /\ [][NextGenerateRequest]_vars

\* The whole service: it answers product requests or a generation request.
\* The endpoints share nothing but the media storage, where the generated
\* files carry names of their own.
InitService == Init \/ InitGenerateRequest

NextService ==
    \/ inp.kind = "none" /\ Next
    \/ inp.kind = "generate_request" /\ NextGenerateRequest

SpecService == InitService /\ [][NextService]_vars

-----------------------------------------------------------------------------
(* Properties.  The normalized tag set and the expected score are stated   *)
(* here independently of the scorers above.                                *)

LowerCase == ("A" :> "a") @@ ("B" :> "b") @@ ("C" :> "c")

Lowered(t) == [i \in DOMAIN t |-> IF t[i] \in DOMAIN LowerCase THEN LowerCase[t[i]] ELSE t[i]]

NonSpace(t) == {i \in DOMAIN t : t[i] # " "}

Blank(t) == NonSpace(t) = {}

Least(S) == CHOOSE x \in S : \A y \in S : x <= y
Greatest(S) == CHOOSE x \in S : \A y \in S : x >= y

Trimmed(t) == SubSeq(t, Least(NonSpace(t)), Greatest(NonSpace(t)))

\* the distinct normalized tags of a collection of raw tags
NormalizedTags(raw) == {Trimmed(Lowered(t)) : t \in {u \in raw : ~Blank(u)}}

\* every object_type, attribute and overall_style value of a features dict
FeatureValues(features) ==
    LET objects == IF "main_objects" \in DOMAIN features
                   THEN to_set(features.main_objects) ELSE {}
        style == IF "overall_style" \in DOMAIN features
                 THEN to_set(features.overall_style) ELSE {}
    IN  {o.object_type : o \in {x \in objects : "object_type" \in DOMAIN x}}
        \cup UNION {to_set(o.attributes) : o \in {x \in objects : "attributes" \in DOMAIN x}}
        \cup style

\* the number of distinct normalized tags a product and a query share
ExpectedScore(features, query_tags) ==
    Cardinality(NormalizedTags(FeatureValues(features))
                \cap NormalizedTags(to_set(query_tags)))

\* C1: both scorers return the number of distinct normalized tags (lowercased,
\* trimmed, blank ones discarded) that the product's features and the query
\* share: a natural number, a shared tag counted once however often it occurs.
C1_ScoreIsSharedTagCount ==
    LET expected == ExpectedScore(inp.features, inp.query_tags)
    IN  /\ out.model \in Nat
        /\ out.repo \in Nat
        /\ out.model = expected
        /\ out.repo = expected

\* C1 witness: a shared tag written twice, differently, on the product's side
\* and twice on the query's side scores 1.
C1_Witness ==
    /\ out.model = 1
    /\ out.repo = 1
    /\ \E i, j \in DOMAIN raw_tags(inp.features) :
         /\ i # j
         /\ raw_tags(inp.features)[i] # raw_tags(inp.features)[j]
         /\ NormalizedTags({raw_tags(inp.features)[i]})
              = NormalizedTags({raw_tags(inp.features)[j]})
         /\ NormalizedTags({raw_tags(inp.features)[i]})
              = NormalizedTags(to_set(inp.query_tags))
    /\ Len(inp.query_tags) = 2
    /\ \A k \in DOMAIN inp.query_tags : ~Blank(inp.query_tags[k])

Ranked == out.kind = "rank"

RowOf(id) == CHOOSE p \in products : p.id = id

Ids(result) == {result[i].id : i \in DOMAIN result}

Positive(query_tags) == {p \in products : ExpectedScore(p.features, query_tags) > 0}

Smaller(a, b) == IF a < b THEN a ELSE b

\* a result list is a correct top-`limit` of the table for the query
TopOfTable(result, query_tags, limit) ==
    /\ \A i, j \in DOMAIN result :
         i < j => result[i].similarity_score >= result[j].similarity_score
    /\ Len(result) = Smaller(limit, Cardinality(Positive(query_tags)))
    /\ \A p \in products : p.id \notin Ids(result) =>
         \A i \in DOMAIN result :
            ExpectedScore(p.features, query_tags) <= result[i].similarity_score

\* C2: the ranking is ordered by non-increasing score, has length
\* min(limit, number of products of positive score) and leaves out no product
\* that scores strictly higher than a returned one.
C2_RankingIsTopN ==
    Ranked =>
        /\ TopOfTable(out.repo, inp.query_tags, inp.limit)
        /\ TopOfTable(out.views, inp.query_tags, TopN)

\* C2 witness: the limit cuts the list, which holds two different scores and
\* leaves a product of positive score out.
C2_Witness ==
    /\ Ranked
    /\ Len(out.repo) = inp.limit
    /\ Cardinality(Positive(inp.query_tags)) > inp.limit
    /\ \E i, j \in DOMAIN out.repo :
         out.repo[i].similarity_score > out.repo[j].similarity_score

\* every entry reports a score >= 1 that is the score of the product it names
ScoresReported(result, query_tags) ==
    \A i \in DOMAIN result :
        /\ result[i].similarity_score >= 1
        /\ result[i].id \in {p.id : p \in products}
        /\ result[i].similarity_score
             = ExpectedScore(RowOf(result[i].id).features, query_tags)

\* C3: the ranking never returns a product of score 0: every returned entry
\* reports a similarity_score >= 1, and it is the score of the product the
\* entry names against the query tags.
C3_NoZeroScoreReturned ==
    Ranked =>
        /\ ScoresReported(out.repo, inp.query_tags)
        /\ ScoresReported(out.views, inp.query_tags)

\* C3 witness: a table with a product of score 0 and products of scores 1 and
\* 2; the result holds the latter two only.
C3_Witness ==
    /\ Ranked
    /\ \E p \in products : ExpectedScore(p.features, inp.query_tags) = 0
    /\ {out.repo[i].similarity_score : i \in DOMAIN out.repo} = {1, 2}
    /\ {out.views[i].similarity_score : i \in DOMAIN out.views} = {1, 2}

\* two entries of equal score keep the order of the scan (newest created_at first)
TiesInScanOrder(result, scan) ==
    \A i, j \in DOMAIN result :
        (i < j /\ result[i].similarity_score = result[j].similarity_score) =>
            /\ \E k, l \in DOMAIN scan :
                 k < l /\ scan[k].id = result[i].id /\ scan[l].id = result[j].id
            /\ result[i].created_at >= result[j].created_at

\* C4: the ranking is stable: returned products of equal score appear in the
\* relative order in which the scan yielded them, newest created_at first,
\* although the sort is descending.
C4_TiesKeepScanOrder ==
    Ranked =>
        /\ TiesInScanOrder(out.repo, inp.scan)
        /\ TiesInScanOrder(out.views, inp.scan)

\* C4 witness: a result with two entries of equal score and different
\* created_at, behind an entry of higher score that the scan yielded last.
C4_Witness ==
    /\ Ranked
    /\ \E i, j \in DOMAIN out.repo :
         /\ i < j
         /\ out.repo[i].similarity_score = out.repo[j].similarity_score
         /\ out.repo[i].created_at > out.repo[j].created_at
    /\ Len(inp.scan) = 3
    /\ out.repo # <<>>
    /\ out.repo[1].id = inp.scan[3].id

\* the requests of one kind that have been answered
Answered(kind) == {r \in DOMAIN reqs : reqs[r].kind = kind /\ reqs[r].pc = "done"}

\* feature extraction succeeded for the request
Extracted(r) == DOMAIN reqs[r].features # {}

\* C5: a find-similar request with a valid image whose feature extraction
\* succeeded, met by an empty catalog or by no product of positive score, is
\* answered 200 with similar_products = [], never with a 4xx/5xx status.
C5_EmptyResultIsSuccess ==
    \A r \in Answered("find") :
        (Extracted(r) /\ reqs[r].similar_products = <<>>)
            => /\ reqs[r].response.status = 200
               /\ reqs[r].response.similar_products = <<>>

Quiescent == \A r \in DOMAIN reqs : reqs[r].pc \in {"idle", "done"}

NoDeleteFailed == \A r \in DOMAIN reqs : ~reqs[r].delete_failed

FullyCompleted(r) ==
    /\ reqs[r].response.status = 201
    /\ reqs[r].saved_path \in storage
    /\ reqs[r].saved_path = storage_path(impl, reqs[r].unique_filename)
    /\ reqs[r].response.image_filename = reqs[r].unique_filename
    /\ Cardinality({p \in products : p.image_filename = reqs[r].unique_filename}) = 1
    /\ \A p \in products :
         p.image_filename = reqs[r].unique_filename
            => /\ p.id = reqs[r].row_id
               /\ p.source_url = reqs[r].source_url
               /\ p.features = reqs[r].features

LeftNothing(r) ==
    /\ reqs[r].response.status >= 400
    /\ reqs[r].row_id = 0
    /\ reqs[r].saved_path \notin storage
    /\ \A p \in products : reqs[r].unique_filename # p.image_filename

\* C6: in a quiescent state in which no delete has failed, every add-product
\* request either fully completed (201, its file stored, one row naming that
\* file and holding the extracted features) or left nothing behind (error, no
\* row, no file); the stored files are exactly the files of the rows.
C6_NoPartialSuccess ==
    (Quiescent /\ NoDeleteFailed)
        => /\ \A r \in Answered("add") : FullyCompleted(r) \/ LeftNothing(r)
           /\ storage = {storage_path(impl, p.image_filename) : p \in products}

\* C6 witness: one request completed, another failed after its file was saved
\* and removed it.
C6_Witness ==
    /\ Quiescent
    /\ NoDeleteFailed
    /\ \E r1, r2 \in Answered("add") :
         /\ FullyCompleted(r1)
         /\ LeftNothing(r2)
         /\ reqs[r2].saved_path # NoPath
         /\ reqs[r2].delete_path = reqs[r2].saved_path

FailedAfterSave(r) == reqs[r].error \in {"analysis error", "IntegrityError"}

\* C7: an add-product request whose feature extraction or row creation failed
\* after its file was saved has attempted to delete exactly that file when it
\* answers, and answers the error of the original failure whether or not the
\* delete succeeded.
C7_CleanupBeforeError ==
    \A r \in Answered("add") :
        FailedAfterSave(r)
            => /\ reqs[r].saved_path # NoPath
               /\ reqs[r].delete_path = reqs[r].saved_path
               /\ ~reqs[r].delete_failed => reqs[r].saved_path \notin storage
               /\ reqs[r].response.status >= 400
               /\ reqs[r].response.error = "Failed to process product"
               /\ reqs[r].response.cause = reqs[r].error
               /\ reqs[r].row_id = 0

\* C7 witness: a row creation failed and the delete of the saved file failed too.
C7_Witness ==
    \E r \in Answered("add") :
        /\ reqs[r].error = "IntegrityError"
        /\ reqs[r].delete_failed
        /\ reqs[r].saved_path \in storage

\* C8: no two rows share a source_url or an image_filename; of the add-product
\* requests with one source_url at most one succeeds; a request that lost the
\* insert answers an error and deleted its own file only, and the file of every
\* row stays in storage.
C8_UniqueUnderConcurrency ==
    /\ \A p, q \in products :
         p # q => (p.source_url # q.source_url /\ p.image_filename # q.image_filename)
    /\ \A r1, r2 \in Answered("add") :
         (r1 # r2 /\ reqs[r1].source_url = reqs[r2].source_url)
            => ~(reqs[r1].response.status = 201 /\ reqs[r2].response.status = 201)
    /\ \A r \in Answered("add") :
         reqs[r].error = "IntegrityError"
            => /\ reqs[r].response.status >= 400
               /\ reqs[r].delete_path = storage_path(impl, reqs[r].unique_filename)
               /\ \A p \in products :
                    storage_path(impl, p.image_filename) # reqs[r].delete_path
    /\ \A p \in products : storage_path(impl, p.image_filename) \in storage

\* C8 witness: two requests with one source_url overlapped; the one that saved
\* its file first lost the insert to the other.
C8_Witness ==
    \E r1, r2 \in Answered("add") :
        /\ reqs[r1].source_url = reqs[r2].source_url
        /\ reqs[r1].response.status = 201
        /\ reqs[r2].error = "IntegrityError"
        /\ reqs[r2].unique_filename[2] < reqs[r1].unique_filename[2]
        /\ reqs[r2].saved_path \notin storage

OversizedImageUpload(r) ==
    /\ reqs[r].upload.present
    /\ startswith_image(reqs[r].upload.content_type)
    /\ reqs[r].upload.size > MaxImageBytes

\* C9: a request that uploads an image/... file of more than 10*1024*1024
\* bytes is answered 400 without an AI call, a file save or a row.
C9_OversizedUploadRejected ==
    \A r \in DOMAIN reqs :
        (OversizedImageUpload(r) /\ reqs[r].pc = "done")
            => /\ reqs[r].response.status = 400
               /\ reqs[r].ai_calls = 0
               /\ reqs[r].saved_path = NoPath
               /\ reqs[r].row_id = 0

Downloaded == inp.kind = "download"

\* the media type of the response is image/..., compared without regard to case
IsImageType(ct) ==
    /\ Len(ct) >= 2
    /\ ct[1] \in {"image", "IMAGE"}
    /\ ct[2] = "/"

DeclaredTooLarge(response) ==
    response.content_length.kind = "int" /\ response.content_length.value > MaxImageBytes

\* C10: the downloader returns bytes only for a response whose content type is
\* image/... and whose declared content-length (when present) and actual size
\* are at most 10*1024*1024; an invalid URL, an HTTP error, a non-image
\* content type or a declared or actual size above the limit makes it fail
\* without bytes.
C10_DownloadValidates ==
    Downloaded =>
        LET response == inp.response IN
        /\ out.ok =>
             /\ IsImageType(response.content_type)
             /\ ~DeclaredTooLarge(response)
             /\ response.size <= MaxImageBytes
             /\ out.image_bytes = response.size
        /\ ( \/ inp.image_url.scheme = ""
             \/ inp.image_url.netloc = ""
             \/ ~response.reachable
             \/ response.status >= 400
             \/ ~IsImageType(response.content_type)
             \/ DeclaredTooLarge(response)
             \/ response.size > MaxImageBytes )
           => (~out.ok /\ "image_bytes" \notin DOMAIN out)

\* C10 witness: a response of exactly 10MB with no declared length is returned.
C10_Witness ==
    /\ Downloaded
    /\ out.ok
    /\ out.image_bytes = MaxImageBytes
    /\ inp.response.content_length.kind = "absent"
    /\ inp.response.content_type = <<"IMAGE", "/", "PNG">>

\* C11: every find-similar response of status 200, the one for an empty
\* table included, carries query_features and query_tags, the features
\* extracted from the query image and the tags derived from them.
C11_QueryEchoed ==
    \A r \in Answered("find") :
        reqs[r].response.status = 200
            => /\ "query_features" \in DOMAIN reqs[r].response
               /\ "query_tags" \in DOMAIN reqs[r].response
               /\ reqs[r].response.query_features = reqs[r].features
               /\ reqs[r].response.query_tags = reqs[r].query_tags

\* a list of tags that is a normalized tag set: every entry lowercased,
\* trimmed and non-empty, no entry twice
NormalizedTagSet(tags) ==
    /\ \A i \in DOMAIN tags :
         /\ ~Blank(tags[i])
         /\ tags[i] = Trimmed(Lowered(tags[i]))
    /\ \A i, j \in DOMAIN tags : i # j => tags[i] # tags[j]

\* C12: the query tags derived by find-similar, and returned as query_tags,
\* are lowercased, trimmed, non-empty and pairwise distinct.
C12_QueryTagsNormalizedSet ==
    \A r \in DOMAIN reqs :
        reqs[r].kind = "find"
            => /\ NormalizedTagSet(reqs[r].query_tags)
               /\ "query_tags" \in DOMAIN reqs[r].response
                    => NormalizedTagSet(reqs[r].response.query_tags)

TagsExtracted == inp.kind = "tags" /\ out.kind = "tags"

\* C13: however main_objects, the attributes of an object and overall_style
\* are permuted, and however often the record is extracted again, the set of
\* tags extracted is the set extracted from the original record.
C13_ExtractionOrderIndependent ==
    TagsExtracted =>
        LET original == NormalizedTags(FeatureValues(inp.original))
        IN  /\ to_set(out.tags) = original
            /\ to_set(out.repo_tags) = original
            /\ to_set(get_all_tags(inp.features)) = to_set(get_all_tags(inp.original))

\* C13 witness: objects, attributes and style entries all stand in another
\* order than in the original record, and the list returned does too.
C13_Witness ==
    /\ TagsExtracted
    /\ "main_objects" \in DOMAIN inp.features
    /\ Len(inp.features.main_objects) = 2
    /\ inp.features.main_objects[1] = inp.original.main_objects[2]
    /\ inp.features.main_objects[2].attributes # inp.original.main_objects[1].attributes
    /\ inp.features.overall_style # inp.original.overall_style
    /\ Len(out.tags) = 3
    /\ out.tags # get_all_tags(inp.original)

\* a features dict or one of its objects lacks a key
MissingSubfield(features) ==
    \/ "main_objects" \notin DOMAIN features
    \/ "overall_style" \notin DOMAIN features
    \/ \E o \in to_set(features.main_objects) :
         "attributes" \notin DOMAIN o \/ "object_type" \notin DOMAIN o

InRanking(ranking, id) == \E k \in DOMAIN ranking : ranking[k].id = id

\* C14: extraction from features that are empty or lack main_objects,
\* overall_style, attributes or object_type returns the tags of the values
\* that are there (a missing list counts as empty); empty features give no
\* tag and score 0; a product of score 0 is in no ranking.
C14_MissingFieldsAreEmpty ==
    TagsExtracted =>
        /\ MissingSubfield(inp.features) =>
             /\ to_set(out.tags) = NormalizedTags(FeatureValues(inp.features))
             /\ to_set(out.repo_tags) = NormalizedTags(FeatureValues(inp.features))
             /\ out.model = ExpectedScore(inp.features, inp.query_tags)
             /\ out.repo = ExpectedScore(inp.features, inp.query_tags)
        /\ DOMAIN inp.features = {} =>
             /\ out.tags = <<>>
             /\ out.repo_tags = <<>>
             /\ out.model = 0
             /\ out.repo = 0
        /\ out.model = 0 => ~InRanking(out.views_ranking, tag_row(inp.features).id)
        /\ out.repo = 0 => ~InRanking(out.repo_ranking, tag_row(inp.features).id)

\* C14 witness: an object without attributes is scored for its object_type and
\* ranked, with overall_style missing.
C14_Witness ==
    /\ TagsExtracted
    /\ DOMAIN inp.features = {"main_objects"}
    /\ "attributes" \notin DOMAIN inp.features.main_objects[1]
    /\ out.model = 1
    /\ out.repo = 1
    /\ InRanking(out.repo_ranking, 1)

\* C15: the score of a product against a query equals the score obtained
\* with the two tag collections in each other's role.
C15_ScoreSymmetric ==
    /\ out.swapped.model = out.model
    /\ out.swapped.repo = out.repo

\* C15 witness: collections of different sizes, written differently, that
\* share one tag.
C15_Witness ==
    /\ out.model = 1
    /\ out.swapped.model = 1
    /\ out.swapped.repo = 1
    /\ Len(raw_tags(inp.features)) = 3
    /\ Len(inp.query_tags) = 1
    /\ \A k \in DOMAIN raw_tags(inp.features) : raw_tags(inp.features)[k] # inp.query_tags[1]

\* C16: a step that adds one tag to the product's features or to the query
\* never lowers the score, and raises it, by exactly 1, exactly when the
\* normalized tag is new on its own side and present on the other side.
C16_ScoreMonotonic ==
    [][ LET P  == NormalizedTags(FeatureValues(inp.features))
            P2 == NormalizedTags(FeatureValues(inp'.features))
            Q  == NormalizedTags(to_set(inp.query_tags))
            Q2 == NormalizedTags(to_set(inp'.query_tags))
            gain == Cardinality(((P2 \ P) \cap Q) \cup ((Q2 \ Q) \cap P))
        IN  /\ out'.model >= out.model
            /\ out'.repo >= out.repo
            /\ gain \in {0, 1}
            /\ out'.model = out.model + gain
            /\ out'.repo = out.repo + gain ]_vars

\* C16 witness: two distinct tags on each side, each match having raised the
\* score by one.
C16_Witness ==
    /\ out.model = 2
    /\ out.repo = 2
    /\ Len(raw_tags(inp.features)) = 2
    /\ Len(inp.query_tags) = 2

\* C17: every step keeps every row as it is (same id, source_url,
\* image_filename, features), and a step that adds a row adds exactly one, with
\* an id no row had, and is the step in which an add-product request is
\* answered 201 with that id.
C17_RowsOnlyGrow ==
    [][ /\ products \subseteq products'
        /\ Cardinality(products' \ products) <= 1
        /\ \A p \in products' \ products :
             /\ \A q \in products : q.id # p.id
             /\ \E r \in DOMAIN reqs :
                  /\ reqs[r].pc = "saved"
                  /\ reqs'[r].pc = "done"
                  /\ reqs'[r].kind = "add"
                  /\ reqs'[r].response.status = 201
                  /\ reqs'[r].response.product_id = p.id
                  /\ reqs'[r].source_url = p.source_url
                  /\ reqs'[r].unique_filename = p.image_filename ]_vars

\* C17 witness: a second row was added to a table that held one, and every
\* request has been answered.
C17_Witness ==
    /\ Cardinality(products) = 2
    /\ \A r \in DOMAIN reqs : reqs[r].pc = "done"

Analysing == inp.kind = "analyze"

\* no credential: the variable is unset, empty or holds the placeholder
NoCredential ==
    \/ ~inp.api_key.set
    \/ inp.api_key.value \in {"", "your_openrouter_api_key_here"}

\* C18: without a credential, feature extraction returns the fixed mock
\* features (chair and table; modern, minimalist, contemporary) whatever the
\* image, makes no remote call and raises nothing.
C18_MockWithoutCredential ==
    (Analysing /\ NoCredential /\ out.pc # "called")
        => /\ out.pc = "returned"
           /\ out.calls = <<>>
           /\ out.error = ""
           /\ out.result = MockFeatures
           /\ [k \in DOMAIN out.result.main_objects |-> out.result.main_objects[k].object_type]
                = << <<"chair">>, <<"table">> >>
           /\ out.result.overall_style
                = << <<"modern">>, <<"minimalist">>, <<"contemporary">> >>

\* C18 witness: the placeholder key and the largest image give the mock.
C18_Witness ==
    /\ Analysing
    /\ inp.api_key = [set |-> TRUE, value |-> "your_openrouter_api_key_here"]
    /\ inp.image_bytes = MaxImageBytes
    /\ out.pc = "returned"
    /\ out.result = MockFeatures

\* a reply that is valid JSON of the ImageFeatures shape
Accepted(reply) ==
    /\ reply.transport = "ok"
    /\ reply.status = 200
    /\ reply.choices
    /\ reply.fence \in {"none", "json"}
    /\ reply.content.json
    /\ DOMAIN reply.content.value = {"main_objects", "overall_style"}

ModelsTriedInOrder ==
    (Analysing /\ ~NoCredential)
        => LET n == Len(out.calls)
           IN  /\ n <= Len(inp.models)
               /\ out.calls = SubSeq(inp.models, 1, n)
               /\ Len(out.replies) = n
               /\ \A k \in 1..(n - 1) : ~Accepted(out.replies[k])
               /\ out.pc = "loop" => \A k \in 1..n : ~Accepted(out.replies[k])
               /\ out.pc = "returned" =>
                    /\ n >= 1
                    /\ Accepted(out.replies[n])
                    /\ out.result = out.replies[n].content.value
               /\ out.pc = "raised" =>
                    /\ n = Len(inp.models)
                    /\ \A k \in 1..n : ~Accepted(out.replies[k])
                    /\ out.error # ""

Generated == inp.kind = "generate" /\ out.pc = "done"

\* C20: of a non-empty output list the result holds the URLs of the elements
\* after the first, in their order (n outputs, n - 1 URLs); a list with the
\* first element alone is a failure saying that no images were generated, a
\* reason other than the one given for an exception of the call.
C20_DepthMapDiscarded ==
    Generated =>
        LET output == out.run.output
            n == Len(output)
        IN  /\ (out.run.kind = "list" /\ n >= 2) =>
                 /\ out.result.success
                 /\ out.result.generated_image_urls.some
                 /\ out.result.generated_image_urls.value
                      = [k \in 1..(n - 1) |-> output[k + 1].url]
            /\ (out.run.kind = "list" /\ n = 1) =>
                 /\ ~out.result.success
                 /\ out.result.error_message
                      = Some("No architectural images generated by the AI model")
            /\ out.run.kind \in {"prepare_error", "run_error"} =>
                 /\ ~out.result.success
                 /\ out.result.error_message.some
                 /\ out.result.error_message.value
                      \notin {"", "No architectural images generated by the AI model"}

\* C20 witness: three outputs, the first equal to the last, give the second
\* and third as URLs.
C20_Witness ==
    /\ Generated
    /\ out.run.kind = "list"
    /\ Len(out.run.output) = 3
    /\ out.run.output[1] = out.run.output[3]
    /\ out.run.output[2] # out.run.output[3]
    /\ out.result.success
    /\ Len(out.result.generated_image_urls.value) = 2

\* the two reasons given when the service is unavailable
UnavailableReasons ==
    {"Replicate package not installed", "Replicate API token not configured"}

\* the credential is unset, empty or the placeholder, or the client library
\* is missing
Unavailable ==
    \/ ~inp.replicate_available
    \/ ~inp.api_token.set
    \/ inp.api_token.value \in {"", "your_replicate_api_token_here"}

\* C21: when the credential is unset or the placeholder, or the client
\* library is absent, generate_image returns a failure carrying an
\* unavailability reason and no remote call is made; a call that was
\* attempted and failed never carries one of these reasons.
C21_UnavailableWithoutCall ==
    Generated =>
        /\ Unavailable =>
              /\ ~out.result.success
              /\ out.remote_calls = 0
              /\ out.run.kind = "not run"
              /\ out.result.error_message.some
              /\ out.result.error_message.value \in UnavailableReasons
        /\ (~Unavailable /\ ~out.result.success) =>
              /\ out.result.error_message.some
              /\ out.result.error_message.value \notin UnavailableReasons

\* C21 witness: the library is present and the token is the placeholder; the
\* call ends without a remote call, reporting the missing token.
C21_Witness ==
    /\ Generated
    /\ inp.replicate_available
    /\ inp.api_token.value = "your_replicate_api_token_here"
    /\ out.remote_calls = 0
    /\ out.result.error_message = Some("Replicate API token not configured")

GenerateAnswered == inp.kind = "generate_request" /\ out.pc = "done"

\* a request with an image of an allowed type and size, a prompt field and
\* steps that are absent or an integer from 20 to 50
PromptOnlyInQuestion ==
    /\ inp.upload.present
    /\ inp.upload.content_type = <<"image", "/", "png">>
    /\ inp.upload.size <= MaxImageBytes
    /\ inp.prompt.present
    /\ inp.steps \in {Absent, Field(<<"2", "0">>), Field(<<"5", "0">>), Field(<<" ", "2", "0">>)}

\* the combined prompt the statement gives for a user prompt
ExpectedPrompt(user_prompt) ==
    IF Blank(user_prompt) THEN default_prompt
    ELSE default_prompt \o <<",", " ">> \o Trimmed(user_prompt)

\* C22: a generation request is handed to the generation service whatever
\* its user prompt holds, and the prompt sent to the model is the preamble
\* followed by ", " and the trimmed user prompt, or the preamble alone when
\* the user prompt is empty or blank.
C22_CombinedPrompt ==
    (GenerateAnswered /\ PromptOnlyInQuestion) =>
        /\ out.service_calls = 1
        /\ out.sent_prompt.some =>
              out.sent_prompt.value = ExpectedPrompt(inp.prompt.value)
        /\ (impl = "views" /\ out.response.status = 200) =>
              out.response.combined_prompt = ExpectedPrompt(inp.prompt.value)

\* the integer a steps field denotes, if it denotes one
StepsDenoted(field) ==
    CASE field = Field(<<"1", "9">>) -> Some(19)
      [] field = Field(<<"2", "0">>) -> Some(20)
      [] field = Field(<<" ", "2", "0">>) -> Some(20)
      [] field = Field(<<"5", "0">>) -> Some(50)
      [] field = Field(<<"5", "1">>) -> Some(51)
      [] OTHER -> None

StepsAcceptable(field) ==
    \/ field = Absent
    \/ StepsDenoted(field).some /\ StepsDenoted(field).value \in 20..50

\* a request whose image and prompt pass the validation
StepsOnlyInQuestion ==
    /\ inp.upload.present
    /\ inp.upload.content_type = <<"image", "/", "png">>
    /\ inp.upload.size <= MaxImageBytes
    /\ inp.prompt.present
    /\ ~Blank(inp.prompt.value)

\* C23: the endpoint hands a request to the generation service exactly when
\* num_inference_steps is absent (then 20 is used) or an integer from 20 to
\* 50; with any other value the answer is 400 and the service is not called.
C23_StepsRange ==
    GenerateAnswered =>
        /\ ~StepsAcceptable(inp.steps) =>
              /\ out.response.status = 400
              /\ out.service_calls = 0
              /\ out.remote_calls = 0
        /\ (StepsOnlyInQuestion /\ StepsAcceptable(inp.steps)) =>
              /\ out.response.status # 400
              /\ out.service_calls = 1
              /\ out.num_inference_steps
                   = IF inp.steps = Absent THEN 20 ELSE StepsDenoted(inp.steps).value
              /\ out.response.status = 200 =>
                    out.response.num_inference_steps = out.num_inference_steps

\* C23 witness: a request valid but for its 51 steps is answered 400 with no
\* call of the service.
C23_Witness ==
    /\ GenerateAnswered
    /\ StepsOnlyInQuestion
    /\ inp.steps = Field(<<"5", "1">>)
    /\ out.response.status = 400
    /\ out.service_calls = 0

\* the request carries an upload that is no image or is larger than 10MB
BadUpload(r) ==
    /\ reqs[r].upload.present
    /\ \/ ~(Len(reqs[r].upload.content_type) >= 1 /\ reqs[r].upload.content_type[1] = "image")
       \/ reqs[r].upload.size > MaxImageBytes

\* the request has a client input error: a body that is not JSON, a missing
\* required field, an upload of a wrong type or size, or an image URL
\* without scheme and host
ClientInputError(r) ==
    \/ reqs[r].body = "malformed"
    \/ BadUpload(r)
    \/ reqs[r].kind = "add" /\ reqs[r].source_url = Missing
    \/ reqs[r].body = "json" /\ reqs[r].image_url = NoUrl
    \/ reqs[r].body = "json" /\ reqs[r].image_url.scheme = ""
    \/ reqs[r].body = "multipart" /\ ~reqs[r].upload.present

\* C24: a request with a client input error is answered 400 with an error
\* message, and the handler makes no AI call, saves no file and creates no
\* row for it.
C24_ClientErrorsAre400 ==
    \A r \in DOMAIN reqs :
        (reqs[r].pc = "done" /\ ClientInputError(r))
            => /\ reqs[r].response.status = 400
               /\ reqs[r].response.error # ""
               /\ reqs[r].ai_calls = 0
               /\ reqs[r].saved_path = NoPath
               /\ reqs[r].row_id = 0

\* feature extraction raised for the request
ExtractionFailed(r) == reqs[r].ai_calls > 0 /\ reqs[r].error = "analysis error"

\* the generation service was called and returned a failure
GenerationFailed ==
    /\ out.service_calls = 1
    /\ \/ inp.api # "available"
       \/ out.run.kind \in {"prepare_error", "run_error", "none"}
       \/ out.run.kind = "list" /\ Len(out.run.output) <= 1

\* an answer with status 400 or 500 and a non-empty error message
ErrorAnswer(response) ==
    /\ response.status \in {400, 500}
    /\ "error" \in DOMAIN response
    /\ response.error # ""
    /\ "success" \notin DOMAIN response

\* C25: when feature extraction fails in add-product or find-similar, or the
\* generation fails in generate-image, the answer has status 400 or 500 and a
\* non-empty error message and is no success response; a failed add-product
\* leaves no row for its source URL or its file.
C25_AIFailureSurfaced ==
    /\ \A r \in DOMAIN reqs :
          (reqs[r].pc = "done" /\ ExtractionFailed(r))
              => /\ ErrorAnswer(reqs[r].response)
                 /\ reqs[r].row_id = 0
                 /\ reqs[r].kind = "add" =>
                       \A p \in products : p.image_filename # reqs[r].unique_filename
    /\ (inp.kind = "generate_request" /\ out.pc = "done" /\ GenerationFailed)
          => /\ ErrorAnswer(out.response)
             /\ out.response.cause # ""

\* C25 witness: an add-product request whose image was saved and whose
\* feature extraction failed has been answered with an error.
C25_Witness ==
    \E r \in DOMAIN reqs :
        /\ reqs[r].kind = "add"
        /\ reqs[r].pc = "done"
        /\ ExtractionFailed(r)
        /\ reqs[r].unique_filename # NoName
        /\ reqs[r].response.status \in {400, 500}

\* the step belongs to the find-similar request in slot r
FindStep(r) == reqs'[r] # reqs[r] /\ reqs'[r].kind = "find"

\* the step belongs to the add-product request in slot r
AddStep(r) == reqs'[r] # reqs[r] /\ reqs'[r].kind = "add"

\* C26: a step of a find-similar request, answered with success or with an
\* error, changes neither the product table nor the image storage; the table
\* changes only in a step of an add-product request, by one inserted row.
C26_FindReadsOnly ==
    [][ /\ \A r \in DOMAIN reqs :
             FindStep(r) => (products' = products /\ storage' = storage)
        /\ products' # products =>
             /\ \E r \in DOMAIN reqs : AddStep(r) /\ reqs'[r].row_id # 0
             /\ products \subseteq products'
             /\ Cardinality(products') = Cardinality(products) + 1 ]_vars

\* C26 witness: with a row and its file stored, a find-similar request has
\* scanned the table and been answered 200.
C26_Witness ==
    /\ products # {}
    /\ storage # {}
    /\ \E r \in Answered("find") :
         /\ reqs[r].response.status = 200
         /\ reqs[r].scanned > 0

\* C27: a successful find-similar response reports as total_products_checked
\* the number of rows the request read from the table and scored.
C27_TotalIsScanned ==
    \A r \in Answered("find") :
        (reqs[r].response.status = 200
         /\ "total_products_checked" \in DOMAIN reqs[r].response)
            => reqs[r].response.total_products_checked = reqs[r].scanned

\* an upload of an image content type holding no bytes
ZeroByteImageUpload(r) ==
    /\ reqs[r].upload.present
    /\ startswith_image(reqs[r].upload.content_type)
    /\ reqs[r].upload.size = 0

\* C28: a find-similar request that uploads an image/... file of zero bytes
\* is answered 400 and feature extraction is not called for it.
C28_ZeroByteUploadRejected ==
    \A r \in Answered("find") :
        ZeroByteImageUpload(r)
            => /\ reqs[r].response.status = 400
               /\ reqs[r].ai_calls = 0

\* the part of a retrieval URL after the media prefix
PathAfterMediaPrefix(image_url) == Tail(image_url)

\* C29: for each product returned by find-similar, the part of its image_url
\* after the media prefix is the path under which the add-product request
\* that created the row saved the image.
C29_ImageUrlIsSavePath ==
    \A r \in Answered("find") :
        reqs[r].response.status = 200 =>
            \A k \in DOMAIN reqs[r].response.similar_products :
                LET entry == reqs[r].response.similar_products[k]
                IN  /\ Head(entry.image_url) = "MEDIA_URL"
                    /\ \A a \in Answered("add") :
                          reqs[a].row_id = entry.id =>
                              PathAfterMediaPrefix(entry.image_url) = reqs[a].saved_path

\* the use case ran its loop over the result URLs and the request is answered
UseCaseSucceeded ==
    /\ inp.kind = "generate_request"
    /\ impl = "layered"
    /\ out.pc = "done"
    /\ out.urls # <<>>

\* C30: when the generation service returned k URLs, the use case answers a
\* success with k URLs and k filenames and total_images = k; position i holds
\* a local URL and the name of a stored file numbered i when image i was
\* downloaded and saved, and the i-th remote URL otherwise.
C30_PerImageFallback ==
    UseCaseSucceeded =>
        LET k == Len(out.urls)
            response == out.response
        IN  /\ response.status = 200
            /\ response.success
            /\ Len(response.generated_image_urls) = k
            /\ Len(response.generated_image_filenames) = k
            /\ response.total_images = k
            /\ Len(out.stored) = k
            /\ \A i \in 1..k :
                  IF out.stored[i]
                  THEN /\ Head(response.generated_image_urls[i]) = "BACKEND_URL"
                       /\ response.generated_image_urls[i]
                            = <<"BACKEND_URL", "MEDIA_URL", response.generated_image_filenames[i]>>
                       /\ response.generated_image_filenames[i][1] = "generated"
                       /\ response.generated_image_filenames[i][3] = i
                       /\ <<response.generated_image_filenames[i]>> \in storage
                  ELSE /\ response.generated_image_urls[i] = <<out.urls[i]>>
                       /\ response.generated_image_filenames[i] = <<"replicate_url", i>>

\* C30 witness: of two result URLs the first was stored locally and the
\* second could not be; the answer holds a local URL, then the second remote URL.
C30_Witness ==
    /\ UseCaseSucceeded
    /\ Len(out.urls) = 2
    /\ out.urls[1] # out.urls[2]
    /\ out.stored = <<TRUE, FALSE>>
    /\ out.response.total_images = 2
    /\ out.response.generated_image_urls[2] = <<out.urls[2]>>

====
